---- MODULE Spec2Model ----
(***************************************************************************)
(* Model of the GRIB index parser, record selector, partial fetcher and    *)
(* variable loader (src/test.py, GRIBDataProcessor) and of the level       *)
(* reconciler (src/app.py, compute_comparable_grids).                      *)
(*                                                                         *)
(* Text is a sequence of one-character strings, so that str.split,         *)
(* str.strip, int(), str.lower, the `in` substring test and re.search are  *)
(* computed character by character as Python computes them.                *)
(***************************************************************************)
EXTENDS Integers, Sequences, FiniteSets, TLC

(***************************************************************************)
(* Bounds of the model.                                                    *)
(***************************************************************************)
\* number of lines of the index text handed to the loader
MaxLines == 3
\* number of lines of the near-surface index text handed to the reconciler
MaxRtmaLines == 2

(***************************************************************************)
(* Optional values: Python's None and a set value.                         *)
(***************************************************************************)
None == [some |-> FALSE, v |-> 0]

Some(n) == [some |-> TRUE, v |-> n]

(***************************************************************************)
(* Python string primitives on character sequences.                        *)
(***************************************************************************)
DigitSeq == <<"0", "1", "2", "3", "4", "5", "6", "7", "8", "9">>

Digits == {DigitSeq[i] : i \in 1..10}

DigitVal(c) == (CHOOSE i \in 1..10 : DigitSeq[i] = c) - 1

Whitespace == {" ", "\n", "\t"}

UpperSeq == <<"A", "B", "C", "D", "E", "F", "G", "H", "I", "J", "K", "L", "M",
              "N", "O", "P", "Q", "R", "S", "T", "U", "V", "W", "X", "Y", "Z">>

LowerSeq == <<"a", "b", "c", "d", "e", "f", "g", "h", "i", "j", "k", "l", "m",
              "n", "o", "p", "q", "r", "s", "t", "u", "v", "w", "x", "y", "z">>

LowerChar(c) ==
    IF \E i \in 1..26 : UpperSeq[i] = c
    THEN LowerSeq[CHOOSE i \in 1..26 : UpperSeq[i] = c]
    ELSE c

\* str.lower()
Lower(s) == [i \in 1..Len(s) |-> LowerChar(s[i])]

SetMin(S) == CHOOSE x \in S : \A y \in S : x <= y

SetMax(S) == CHOOSE x \in S : \A y \in S : x >= y

\* str.strip(): leading and trailing whitespace removed
Strip(s) ==
    LET keep == {i \in 1..Len(s) : s[i] \notin Whitespace}
    IN  IF keep = {} THEN <<>> ELSE SubSeq(s, SetMin(keep), SetMax(keep))

\* str.split(sep) with an explicit one-character separator: the parts
\* between consecutive separators; always at least one part, empty parts kept
Split(s, sep) ==
    LET seps    == {i \in 1..Len(s) : s[i] = sep}
        cut(k)  == IF k = 0 THEN 0
                   ELSE IF k > Cardinality(seps) THEN Len(s) + 1
                   ELSE CHOOSE p \in seps : Cardinality({q \in seps : q < p}) = k - 1
    IN  [k \in 1..(Cardinality(seps) + 1) |-> SubSeq(s, cut(k - 1) + 1, cut(k) - 1)]

RECURSIVE Join(_, _)
\* sep.join(parts)
Join(parts, sep) ==
    IF parts = <<>> THEN <<>>
    ELSE IF Len(parts) = 1 THEN parts[1]
    ELSE parts[1] \o <<sep>> \o Join(Tail(parts), sep)

\* sub in s
Contains(s, sub) ==
    \E i \in 1..(Len(s) - Len(sub) + 1) : SubSeq(s, i, i + Len(sub) - 1) = sub

RECURSIVE DigitsValue(_)
DigitsValue(s) ==
    IF s = <<>> THEN 0
    ELSE 10 * DigitsValue(SubSeq(s, 1, Len(s) - 1)) + DigitVal(s[Len(s)])

AllDigits(s) == s # <<>> /\ \A i \in 1..Len(s) : s[i] \in Digits

\* int(s) on text: surrounding whitespace is ignored; anything that is not a
\* non-empty run of decimal digits raises ValueError (ok = FALSE).  The texts
\* of the model hold no sign and no underscore.
PyInt(s) ==
    LET t == Strip(s)
    IN  IF AllDigits(t) THEN [ok |-> TRUE, v |-> DigitsValue(t)]
        ELSE [ok |-> FALSE, v |-> 0]

RECURSIVE NatToStr(_)
NatToStr(n) ==
    IF n < 10 THEN <<DigitSeq[n + 1]>>
    ELSE NatToStr(n \div 10) \o <<DigitSeq[(n % 10) + 1]>>

\* f"{n}" for an int
IntToStr(n) == IF n < 0 THEN <<"-">> \o NatToStr(0 - n) ELSE NatToStr(n)

(***************************************************************************)
(* Inventory Parser: GRIBDataProcessor.get_grib_inventory.                 *)
(***************************************************************************)
\* minimum number of colon-separated columns of a record line
MinColumns == 7

\* the look-ahead of get_grib_inventory: byte_end of the record on line i.
\* ok = FALSE is the IndexError / ValueError raised by int(next_parts[1]).
ByteEndAt(lines, i) ==
    IF i < Len(lines)
    THEN LET next_parts == Split(lines[i + 1], ":")
         IN  IF Len(next_parts) < 2 THEN [ok |-> FALSE, v |-> None]
             ELSE LET n == PyInt(next_parts[2])
                  IN  IF n.ok THEN [ok |-> TRUE, v |-> Some(n.v - 1)]
                      ELSE [ok |-> FALSE, v |-> None]
    ELSE [ok |-> TRUE, v |-> None]

RECURSIVE ParseLinesFrom(_, _, _)
\* the for loop over enumerate(lines); ok = FALSE when an exception leaves it
ParseLinesFrom(lines, i, inventory) ==
    IF i > Len(lines) THEN [ok |-> TRUE, inventory |-> inventory]
    ELSE LET parts == Split(lines[i], ":")
         IN  IF Len(parts) >= MinColumns
             THEN LET record_num == PyInt(parts[1])
                      byte_start == PyInt(parts[2])
                      byte_end   == ByteEndAt(lines, i)
                  IN  IF ~record_num.ok \/ ~byte_start.ok \/ ~byte_end.ok
                      THEN [ok |-> FALSE, inventory |-> <<>>]
                      ELSE ParseLinesFrom(lines, i + 1, Append(inventory,
                              [record        |-> record_num.v,
                               byte_start    |-> byte_start.v,
                               byte_end      |-> byte_end.v,
                               variable      |-> parts[4],
                               level         |-> parts[5],
                               forecast_time |-> parts[6],
                               full_line     |-> lines[i]]))
             ELSE ParseLinesFrom(lines, i + 1, inventory)

\* response.text.strip().split('\n')
TextLines(text) == Split(Strip(text), "\n")

\* the parse of a retrieved index text
get_grib_inventory(text) == ParseLinesFrom(TextLines(text), 1, <<>>)

(***************************************************************************)
(* Record Selector: the search loop of load_single_variable.               *)
(***************************************************************************)
\* the level test applied to a record whose variable code matches
LevelMatches(level_str, pressure_level) ==
    IF pressure_level.some
    THEN IF pressure_level.v = 0
         THEN \/ Contains(Lower(level_str), <<"s", "u", "r", "f", "a", "c", "e">>)
              \/ Contains(Lower(level_str), <<"s", "f", "c">>)
         ELSE \/ Contains(level_str, IntToStr(pressure_level.v) \o <<" ", "m", "b">>)
              \/ Contains(level_str, IntToStr(pressure_level.v) \o <<"m", "b">>)
    ELSE TRUE

\* a selector that falls back to the first record of the variable when no
\* level matches
SelectWithFallback(inventory, i, variable_name, pressure_level) ==
    LET exact == {j \in i..Len(inventory) :
                    /\ inventory[j].variable = variable_name
                    /\ LevelMatches(inventory[j].level, pressure_level)}
        any   == {j \in i..Len(inventory) : inventory[j].variable = variable_name}
    IN  IF exact # {} THEN Some(SetMin(exact))
        ELSE IF any # {} THEN Some(SetMin(any))
        ELSE None

RECURSIVE SelectFrom(_, _, _, _)
\* for record in inventory: ... break; the result is the index of
\* target_record in the inventory, or None
SelectFrom(inventory, i, variable_name, pressure_level) ==
    IF i > Len(inventory) THEN None
    ELSE IF /\ inventory[i].variable = variable_name
            /\ LevelMatches(inventory[i].level, pressure_level)
         THEN Some(i)
         ELSE SelectFrom(inventory, i + 1, variable_name, pressure_level)

SelectRecord(inventory, variable_name, pressure_level) ==
    SelectFrom(inventory, 1, variable_name, pressure_level)

(***************************************************************************)
(* Partial Fetcher: the Range header of download_grib_subset.              *)
(***************************************************************************)
BytesEq == <<"b", "y", "t", "e", "s", "=">>

\* `if byte_end` is Python truthiness: None and 0 are both false
RangeHeader(byte_start, byte_end) ==
    IF byte_end.some /\ byte_end.v # 0
    THEN BytesEq \o IntToStr(byte_start) \o <<"-">> \o IntToStr(byte_end.v)
    ELSE BytesEq \o IntToStr(byte_start) \o <<"-">>

(***************************************************************************)
(* Level Reconciler: _parse_grib_index and the helpers of                  *)
(* compute_comparable_grids.                                               *)
(***************************************************************************)
\* minimum number of columns _parse_grib_index asks of a line
MinIndexColumns == 6

RECURSIVE IndexMappingFrom(_, _, _)
\* for line in lines: mapping.setdefault(var, []).append(level); a mapping
\* is a function from the variable codes seen to their level strings
IndexMappingFrom(lines, i, mapping) ==
    IF i > Len(lines) THEN mapping
    ELSE LET parts == Split(lines[i], ":")
         IN  IF Len(parts) >= MinIndexColumns
             THEN LET var    == parts[4]
                      level  == parts[5]
                      before == IF var \in DOMAIN mapping THEN mapping[var] ELSE <<>>
                  IN  IndexMappingFrom(lines, i + 1,
                          [v \in DOMAIN mapping \cup {var} |->
                              IF v = var THEN Append(before, level) ELSE mapping[v]])
             ELSE IndexMappingFrom(lines, i + 1, mapping)

EmptyMapping == [v \in {} |-> <<>>]

\* the mapping of a retrieved index text
ParseGribIndex(text) == IndexMappingFrom(TextLines(text), 1, EmptyMapping)

\* `mapping.get(var, [])`
LevelsOf(mapping, var) == IF var \in DOMAIN mapping THEN mapping[var] ELSE <<>>

\* code points of the characters of the model, for the order of sorted()
AsciiSeq == <<"\t", "\n", " ", "-">> \o DigitSeq \o <<":", "=">> \o UpperSeq \o LowerSeq

CharCode(c) == CHOOSE i \in 1..Len(AsciiSeq) : AsciiSeq[i] = c

\* s < t for Python strings
StrLess(s, t) ==
    \E k \in 1..(Len(t)) :
        /\ k <= Len(s) + 1
        /\ \A j \in 1..(k - 1) : s[j] = t[j]
        /\ \/ k = Len(s) + 1
           \/ k <= Len(s) /\ CharCode(s[k]) < CharCode(t[k])

RECURSIVE SortedStrings(_)
\* sorted(set of strings)
SortedStrings(S) ==
    IF S = {} THEN <<>>
    ELSE LET least == CHOOSE x \in S : \A y \in S \ {x} : StrLess(x, y)
         IN  <<least>> \o SortedStrings(S \ {least})

RECURSIVE SortedInts(_)
\* sorted(set of ints)
SortedInts(S) ==
    IF S = {} THEN <<>>
    ELSE <<SetMin(S)>> \o SortedInts(S \ {SetMin(S)})

\* (\d{k})\s*mb matched at position i of s
MbMatchesAt(s, i, k) ==
    /\ i + k - 1 <= Len(s)
    /\ \A j \in i..(i + k - 1) : s[j] \in Digits
    /\ LET after == {j \in (i + k)..Len(s) : s[j] \notin Whitespace}
       IN  /\ after # {}
           /\ SetMin(after) + 1 <= Len(s)
           /\ s[SetMin(after)] = "m"
           /\ s[SetMin(after) + 1] = "b"

\* re.search(r"(\d{2,4})\s*mb", s): leftmost start, longest digit run there
SearchMb(s) ==
    LET starts == {i \in 1..Len(s) : \E k \in 2..4 : MbMatchesAt(s, i, k)}
    IN  IF starts = {} THEN None
        ELSE LET i == SetMin(starts)
                 k == SetMax({n \in 2..4 : MbMatchesAt(s, i, n)})
             IN  Some(DigitsValue(SubSeq(s, i, i + k - 1)))

\* re.search(r"^(\d{2,4})$", s) on a stripped string
SearchPlainNumber(s) ==
    IF Len(s) \in 2..4 /\ AllDigits(s) THEN Some(DigitsValue(s)) ELSE None

\* the body of the loop of extract_pressure_ints for one level string
ExtractPressureInt(lv) ==
    IF lv = <<>> THEN None
    ELSE IF SearchMb(Lower(lv)).some THEN SearchMb(Lower(lv))
    ELSE SearchPlainNumber(Strip(lv))

\* extract_pressure_ints: sorted(list(set(ints)))
extract_pressure_ints(levels) ==
    SortedInts({ExtractPressureInt(levels[i]).v :
                  i \in {j \in 1..Len(levels) : ExtractPressureInt(levels[j]).some}})

\* any('2 m' in l.lower() or '2m' in l.lower() for l in rtma_levels)
HasTwoMetre(levels) ==
    \E i \in 1..Len(levels) :
        \/ Contains(Lower(levels[i]), <<"2", " ", "m">>)
        \/ Contains(Lower(levels[i]), <<"2", "m">>)

\* any('surface' in l.lower() or 'sfc' in l.lower() for l in rtma_levels)
HasSurface(levels) ==
    \E i \in 1..Len(levels) :
        \/ Contains(Lower(levels[i]), <<"s", "u", "r", "f", "a", "c", "e">>)
        \/ Contains(Lower(levels[i]), <<"s", "f", "c">>)

Targets == <<1000, 925, 850, 700>>

Abs(x) == IF x < 0 THEN 0 - x ELSE x

RECURSIVE TargetLoop(_, _, _)
\* for t in targets: d = abs(candidate - t); if best_diff is None or
\* d < best_diff: best_diff = d; best_match = candidate
TargetLoop(candidate, j, best) ==
    IF j > Len(Targets) THEN best
    ELSE LET d == Abs(candidate - Targets[j])
         IN  IF ~best.diff.some \/ d < best.diff.v
             THEN TargetLoop(candidate, j + 1, [diff |-> Some(d), match |-> Some(candidate)])
             ELSE TargetLoop(candidate, j + 1, best)

RECURSIVE CandidateLoop(_, _, _)
\* for candidate in three_levels: the outer loop
CandidateLoop(three_levels, i, best) ==
    IF i > Len(three_levels) THEN best
    ELSE CandidateLoop(three_levels, i + 1, TargetLoop(three_levels[i], 1, best))

\* a search that starts from a tolerance of 100 mb instead of from None
ClosestWithinTolerance(three_levels) ==
    CandidateLoop(three_levels, 1, [diff |-> Some(100), match |-> None]).match

\* the near-surface branch: the closest available level to any target
ClosestToTargets(three_levels) ==
    CandidateLoop(three_levels, 1, [diff |-> None, match |-> None]).match

\* the lower middle element: index (len - 1) // 2
LowerMedianLevel(three_levels) == Some(three_levels[(Len(three_levels) + 1) \div 2])

\* the branch without a hint: three_levels[len(three_levels)//2]
MedianLevel(three_levels) == Some(three_levels[(Len(three_levels) \div 2) + 1])

\* the middle level whatever the hint
BestMatchMedianOnly(three_levels, has_hint) ==
    IF three_levels # <<>> THEN MedianLevel(three_levels) ELSE None

\* best_match of one variable
BestMatch(three_levels, has_hint) ==
    IF three_levels # <<>>
    THEN IF has_hint THEN ClosestToTargets(three_levels)
         ELSE MedianLevel(three_levels)
    ELSE None

\* only the variables both inventories list
VarsInBoth(rmap, tmap) == DOMAIN rmap \cap DOMAIN tmap

\* set(list(rtma_map.keys()) + list(three_map.keys()))
VarsUnion(rmap, tmap) == DOMAIN rmap \cup DOMAIN tmap

\* the entry appended to comparisons for one variable
ComparisonEntry(var, rmap, tmap) ==
    LET rtma_levels  == LevelsOf(rmap, var)
        three_levels == extract_pressure_ints(LevelsOf(tmap, var))
    IN  [variable            |-> var,
         rtma_levels         |-> rtma_levels,
         rtma_has_2m         |-> HasTwoMetre(rtma_levels),
         rtma_has_surface    |-> HasSurface(rtma_levels),
         three_d_levels      |-> three_levels,
         best_match_3d_level |-> BestMatch(three_levels,
                                    HasTwoMetre(rtma_levels) \/ HasSurface(rtma_levels))]

\* for var in sorted(vars_union): comparisons.append({...})
Comparisons(rmap, tmap) ==
    LET order == SortedStrings(VarsUnion(rmap, tmap))
    IN  [i \in 1..Len(order) |-> ComparisonEntry(order[i], rmap, tmap)]

(***************************************************************************)
(* Index texts handed to the loader.                                       *)
(***************************************************************************)
TMP == <<"T", "M", "P">>

HGT == <<"H", "G", "T">>

LevelTwoMetre == <<"2", " ", "m", " ", "a", "b", "o", "v", "e", " ",
                   "g", "r", "o", "u", "n", "d">>

LevelSurface == <<"S", "u", "r", "f", "a", "c", "e">>

LevelSfc == <<"s", "f", "c">>

LevelMb(p) == IntToStr(p) \o <<" ", "m", "b">>

LevelMbTight(p) == IntToStr(p) \o <<"m", "b">>

\* byte offset written on the k-th line of a generated index text
ByteOffset(k) == IF k = 1 THEN 0 ELSE IF k = 2 THEN 1 ELSE (k - 2) * 500

\* "k:offset:d=2025:VAR:level:anl:" -- the trailing colon gives 7 columns
RecordLine(k, var, level) ==
    Join(<<IntToStr(k), IntToStr(ByteOffset(k)), <<"d", "=", "2", "0", "2", "5">>,
           var, level, <<"a", "n", "l">>, <<>>>>, ":")

BlankLine == <<>>

ShortNumericLine == <<"9", ":", "7">>

ShortWordLine == <<"x", ":", "y">>

LoaderLines(k) ==
    { RecordLine(k, TMP, LevelTwoMetre), RecordLine(k, TMP, LevelSurface),
      RecordLine(k, TMP, LevelMb(850)), RecordLine(k, HGT, LevelSfc),
      RecordLine(k, HGT, LevelMbTight(50)),
      BlankLine, ShortNumericLine, ShortWordLine }

RECURSIVE LineSeqs(_, _)
\* all sequences of n lines whose last line is line number k + n - 1
LineSeqs(k, n) ==
    IF n = 0 THEN {<<>>}
    ELSE {<<l>> \o rest : l \in LoaderLines(k), rest \in LineSeqs(k + 1, n - 1)}

\* an index file: its lines, each ended by a newline
FileText(lines) == Join(lines, "\n") \o <<"\n">>

LoaderTexts == {FileText(ls) : ls \in UNION {LineSeqs(1, n) : n \in 1..MaxLines}}

RequestVariables == {TMP, HGT}

RequestLevels == {None, Some(0), Some(850), Some(50)}

(***************************************************************************)
(* State.                                                                  *)
(***************************************************************************)
VARIABLES
    idx_text,        \* body of the index resource at idx_url
    variable_name,   \* argument of load_single_variable
    pressure_level,  \* argument of load_single_variable: None or an int
    pc,              \* position of the call in load_single_variable
    inventory,       \* the parsed record list
    target_record,   \* None or the index in inventory of the selected record
    range_header,    \* Range header of the ranged request, <<>> before it
    temp_files,      \* staging files that exist on disk
    temp_file_path,  \* None or the name bound to temp_file_path
    steps,           \* the external steps the call has performed, in order
    outcome,         \* how the call ended
    failure,         \* "none" or the step that failed
    returned,        \* the caller's view of the ended call, "running" before
    rtma_text,       \* body of the near-surface index resource
    three_text,      \* body of the pressure-level index resource
    cpc,             \* position of the call in compute_comparable_grids
    rtma_map,        \* mapping parsed from the near-surface index
    three_map,       \* mapping parsed from the pressure-level index
    retrieved_idx,   \* the index resources whose GET succeeded
    comparisons,     \* the comparison entries of the result
    result_success,  \* "none" before the return, then the 'success' field
    log_written      \* whether the diagnostic snapshot was written

\* ---- further variable groups
VARIABLES
    datar,            \* near-surface values, rows of cells
    src_lat,          \* latitude of each near-surface row (lat_grid[:,0])
    src_lon,          \* longitude of each near-surface column (lon_grid[0,:])
    data3,            \* pressure-level values, rows of cells
    tgt_lat,          \* latitude of each pressure-level row
    tgt_lon,          \* longitude of each pressure-level column
    gpc,              \* position in the difference path
    datar_resampled,  \* near-surface values aligned to the pressure-level grid
    diff,             \* difference grid, or the grid that is sampled
    vabs,             \* symmetric colour range of the difference
    contour_levels,   \* contour levels handed to the renderer, in 19ths
    diff_response,    \* answer of the difference request
    query,            \* requested lat and lon
    cell,             \* indices i, j the sampler chose
    sampled           \* the sampler's answer

gridVars == <<datar, src_lat, src_lon, data3, tgt_lat, tgt_lon, gpc, datar_resampled, diff, vabs, contour_levels, diff_response, query, cell, sampled>>

VARIABLES
    var_code,         \* variable code handed to get_variable_info
    raw,              \* the decoded values, as decoded
    var_data,         \* the decoded array object
    var_info,         \* descriptor chosen for var_code
    converted_data,   \* result of _convert_units, in thousandths
    vpc               \* position in the conversion

convVars == <<var_code, raw, var_data, var_info, converted_data, vpc>>

VARIABLES
    ds_latitude,      \* ds.latitude.values: [ndim, values]
    ds_longitude,     \* ds.longitude.values: [ndim, values]
    lat_grid,         \* latitude grid, rows of cells
    lon_grid,         \* longitude grid, rows of cells
    xpc               \* position in _extract_coordinates

coordVars == <<ds_latitude, ds_longitude, lat_grid, lon_grid, xpc>>

VARIABLES
    data_source,      \* requested source key, or no key
    date,             \* date as YYYYMMDD text
    hour,             \* analysis hour
    grib_url,         \* URL of the binary resource
    idx_url,          \* URL of the index resource
    url_outcome,      \* how the URL generation ended
    upc               \* position in the URL generation

urlVars == <<data_source, date, hour, grib_url, idx_url, url_outcome, upc>>

VARIABLES
    date_str,         \* the argument: [type, text]
    date_result,      \* outcome of date_to_yyyymmdd: [outcome, value]
    dpc               \* position in the date normalisation

dateVars == <<date_str, date_result, dpc>>

VARIABLES
    level_value,      \* the argument: [type, text, num, frac]
    level_result,     \* outcome of validate_pressure_level: [outcome, value]
    lpc               \* position in the validation

levelVars == <<level_value, level_result, lpc>>

VARIABLES
    weather_generator,\* the module global: 0 is None, else the instance
    instances,        \* how many WeatherMapGenerator objects were constructed
    rpc,              \* position of each request thread in get_weather_generator
    built,            \* the instance a thread constructed and has not stored yet
    got               \* the instance each call returned, 0 before

singleVars == <<weather_generator, instances, rpc, built, got>>

VARIABLES
    available,        \* sorted variable codes of the requested date and hour
    map_requests,     \* the payload of each request
    apc,              \* position of each request in its handler
    static_maps,      \* the files of static/maps: name to content
    rendering,        \* what each request rendered
    responses         \* the JSON answer of each request

artifactVars == <<available, map_requests, apc, static_maps, rendering, responses>>

VARIABLES
    q_text,           \* the index text of the requested source
    q_source,         \* data_source of the payload
    q_variable,       \* variable of the payload
    q_level,          \* pressure_level of the payload
    q_passed,         \* the pressure level handed to the generator
    q_target,         \* index of the record the loader selected
    q_listed,         \* the variables listed for the level
    qpc               \* position of the request in its handler

requestVars == <<q_text, q_source, q_variable, q_level, q_passed, q_target, q_listed, qpc>>

VARIABLES
    i_text,           \* the index text both parsers retrieve
    i_mapping,        \* what _parse_grib_index returned
    i_inventory,      \* what get_grib_inventory returned
    i_map_outcome,    \* how the call of _parse_grib_index ended
    i_inv_outcome     \* how the call of get_grib_inventory ended

indexVars == <<i_text, i_mapping, i_inventory, i_map_outcome, i_inv_outcome>>

loaderVars == <<idx_text, variable_name, pressure_level, pc, inventory,
                target_record, range_header, temp_files, temp_file_path,
                steps, outcome, failure, returned>>

reconVars == <<rtma_text, three_text, cpc, rtma_map, three_map, retrieved_idx,
               comparisons, result_success, log_written>>

vars == <<loaderVars, reconVars, gridVars, convVars, coordVars, urlVars, dateVars, levelVars, singleVars, artifactVars, requestVars, indexVars>>

\* the variables no loader action touches
notLoaderVars == <<reconVars, gridVars, convVars, coordVars, urlVars, dateVars, levelVars, singleVars, artifactVars, requestVars, indexVars>>

\* the variables no reconciler action touches
notReconVars == <<loaderVars, gridVars, convVars, coordVars, urlVars, dateVars, levelVars, singleVars, artifactVars, requestVars, indexVars>>

\* the variables no grid action touches
notGridVars == <<loaderVars, reconVars, convVars, coordVars, urlVars, dateVars, levelVars, singleVars, artifactVars, requestVars, indexVars>>

\* the variables no unit conversion action touches
notConvVars == <<loaderVars, reconVars, gridVars, coordVars, urlVars, dateVars, levelVars, singleVars, artifactVars, requestVars, indexVars>>

\* the variables no coordinate extraction action touches
notCoordVars == <<loaderVars, reconVars, gridVars, convVars, urlVars, dateVars, levelVars, singleVars, artifactVars, requestVars, indexVars>>

\* the variables no URL generation action touches
notUrlVars == <<loaderVars, reconVars, gridVars, convVars, coordVars, dateVars, levelVars, singleVars, artifactVars, requestVars, indexVars>>

\* the variables no date normalisation action touches
notDateVars == <<loaderVars, reconVars, gridVars, convVars, coordVars, urlVars, levelVars, singleVars, artifactVars, requestVars, indexVars>>

\* the variables no pressure-level validation action touches
notLevelVars == <<loaderVars, reconVars, gridVars, convVars, coordVars, urlVars, dateVars, singleVars, artifactVars, requestVars, indexVars>>

\* the variables no generator singleton action touches
notSingleVars == <<loaderVars, reconVars, gridVars, convVars, coordVars, urlVars, dateVars, levelVars, artifactVars, requestVars, indexVars>>

\* the variables no map request action touches
notArtifactVars == <<loaderVars, reconVars, gridVars, convVars, coordVars, urlVars, dateVars, levelVars, singleVars, requestVars, indexVars>>

\* the variables no level request action touches
notRequestVars == <<loaderVars, reconVars, gridVars, convVars, coordVars, urlVars, dateVars, levelVars, singleVars, artifactVars, indexVars>>

\* the variables no index parse action touches
notIndexVars == <<loaderVars, reconVars, gridVars, convVars, coordVars, urlVars, dateVars, levelVars, singleVars, artifactVars, requestVars>>

\* no reconciliation in progress
ReconIdle ==
    /\ rtma_text = <<>>
    /\ three_text = <<>>
    /\ cpc = "idle"
    /\ rtma_map = EmptyMapping
    /\ three_map = EmptyMapping
    /\ retrieved_idx = {}
    /\ comparisons = <<>>
    /\ result_success = "none"
    /\ log_written = FALSE

\* no load in progress
LoaderIdle ==
    /\ idx_text = <<>>
    /\ variable_name = <<>>
    /\ pressure_level = None
    /\ pc = "idle"
    /\ inventory = <<>>
    /\ target_record = None
    /\ range_header = <<>>
    /\ temp_files = {}
    /\ temp_file_path = None
    /\ steps = <<>>
    /\ outcome = "running"
    /\ failure = "none"
    /\ returned = [raised |-> FALSE, variable_data |-> "running", coords |-> "running"]

\* ---- idle groups
\* no grid difference in progress
GridIdle ==
    /\ datar = <<>>
    /\ src_lat = <<>>
    /\ src_lon = <<>>
    /\ data3 = <<>>
    /\ tgt_lat = <<>>
    /\ tgt_lon = <<>>
    /\ gpc = "idle"
    /\ datar_resampled = <<>>
    /\ diff = <<>>
    /\ vabs = [k |-> "unset", v |-> 0]
    /\ contour_levels = <<>>
    /\ diff_response = "none"
    /\ query = [lat |-> 0, lon |-> 0]
    /\ cell = [i |-> 0, j |-> 0]
    /\ sampled = [k |-> "unset", v |-> 0]

\* no unit conversion in progress
ConvIdle ==
    /\ var_code = ""
    /\ raw = <<>>
    /\ var_data = <<>>
    /\ var_info = [name |-> "", units |-> "", multiplier |-> 0, has_offset |-> FALSE, offset |-> 0]
    /\ converted_data = <<>>
    /\ vpc = "idle"

\* no coordinate extraction in progress
CoordIdle ==
    /\ ds_latitude = [ndim |-> 0, values |-> <<>>]
    /\ ds_longitude = [ndim |-> 0, values |-> <<>>]
    /\ lat_grid = <<>>
    /\ lon_grid = <<>>
    /\ xpc = "idle"

\* no URL generation in progress
UrlIdle ==
    /\ data_source = [given |-> FALSE, key |-> ""]
    /\ date = <<>>
    /\ hour = 0
    /\ grib_url = <<>>
    /\ idx_url = <<>>
    /\ url_outcome = "running"
    /\ upc = "idle"

\* no date normalisation in progress
DateIdle ==
    /\ date_str = [type |-> "NoneType", text |-> <<>>]
    /\ date_result = [outcome |-> "running", value |-> <<>>]
    /\ dpc = "idle"

\* no pressure-level validation in progress
LevelIdle ==
    /\ level_value = [type |-> "NoneType", text |-> <<>>, num |-> 0, frac |-> 0]
    /\ level_result = [outcome |-> "running", value |-> 0]
    /\ lpc = "idle"

\* no request has asked for the generator
SingleIdle ==
    /\ weather_generator = 0
    /\ instances = 0
    /\ rpc = <<>>
    /\ built = <<>>
    /\ got = <<>>

\* no map or difference request in progress
ArtifactIdle ==
    /\ available = <<>>
    /\ map_requests = <<>>
    /\ apc = <<>>
    /\ static_maps = <<>>
    /\ rendering = <<>>
    /\ responses = <<>>

\* no request with a pressure level in progress
RequestIdle ==
    /\ q_text = <<>>
    /\ q_source = ""
    /\ q_variable = <<>>
    /\ q_level = [type |-> "NoneType", text |-> <<>>, num |-> 0, frac |-> 0]
    /\ q_passed = [type |-> "NoneType", text |-> <<>>, num |-> 0, frac |-> 0]
    /\ q_target = [some |-> FALSE, v |-> 0]
    /\ q_listed = <<>>
    /\ qpc = "idle"

\* no index text handed to the two parsers
IndexIdle ==
    /\ i_text = <<>>
    /\ i_mapping = <<>>
    /\ i_inventory = <<>>
    /\ i_map_outcome = "idle"
    /\ i_inv_outcome = "idle"

\* every group of variables but `group` is idle
IdleExcept(group) ==
    /\ IF group = "loader" THEN TRUE ELSE LoaderIdle
    /\ IF group = "recon" THEN TRUE ELSE ReconIdle
    /\ IF group = "grid" THEN TRUE ELSE GridIdle
    /\ IF group = "conv" THEN TRUE ELSE ConvIdle
    /\ IF group = "coord" THEN TRUE ELSE CoordIdle
    /\ IF group = "url" THEN TRUE ELSE UrlIdle
    /\ IF group = "date" THEN TRUE ELSE DateIdle
    /\ IF group = "level" THEN TRUE ELSE LevelIdle
    /\ IF group = "single" THEN TRUE ELSE SingleIdle
    /\ IF group = "artifact" THEN TRUE ELSE ArtifactIdle
    /\ IF group = "request" THEN TRUE ELSE RequestIdle
    /\ IF group = "index" THEN TRUE ELSE IndexIdle

LoaderInit ==
    /\ idx_text \in LoaderTexts
    /\ variable_name \in RequestVariables
    /\ pressure_level \in RequestLevels
    /\ pc = "inventory"
    /\ inventory = <<>>
    /\ target_record = None
    /\ range_header = <<>>
    /\ temp_files = {}
    /\ temp_file_path = None
    /\ steps = <<>>
    /\ outcome = "running"
    /\ failure = "none"
    /\ returned = [raised |-> FALSE, variable_data |-> "running", coords |-> "running"]
    /\ IdleExcept("loader")

(***************************************************************************)
(* Variable Loader: GRIBDataProcessor.load_single_variable, one action per *)
(* blocking step.  An outcome is the exit the call takes:                  *)
(*   "RequestException"  raised: the index resource was not retrieved      *)
(*   "Exception"         raised: the loop over the index lines raised      *)
(*   "not_found"         return None, None at the end of the search        *)
(*   "error"             return None, None from `except Exception`         *)
(*   "no_data"           return None, None after a decode without data     *)
(*   "loaded"            return variable_data, coords                      *)
(* failure records what went wrong, returned what the caller receives.     *)
(***************************************************************************)
Raised == {"RequestException", "Exception"}

ReturnedNone == {"not_found", "error", "no_data"}

\* what load_single_variable hands to its caller on each exit: an exception
\* of get_grib_inventory propagates, `return variable_data, coords` is the
\* success, every other exit is `return None, None` (the JPEG case differs
\* only in the text that is logged)
ReturnOf(exit) ==
    IF exit \in Raised THEN [raised |-> TRUE, variable_data |-> "None", coords |-> "None"]
    ELSE IF exit = "loaded"
    THEN [raised |-> FALSE, variable_data |-> "dict", coords |-> "dict"]
    ELSE [raised |-> FALSE, variable_data |-> "None", coords |-> "None"]

\* the call ends by exit `exit` after the failure `kind`
Exit(exit, kind) ==
    /\ outcome' = exit
    /\ failure' = kind
    /\ returned' = ReturnOf(exit)

\* the finally clause: os.remove(temp_file_path) when the path exists
RemoveTempFile == temp_files \ {temp_file_path.v}

\* inventory = self.get_grib_inventory(idx_url); an exception of
\* get_grib_inventory is re-raised and leaves load_single_variable
FetchInventory ==
    /\ pc = "inventory"
    /\ steps' = Append(steps, "index_fetch")
    /\ \E retrieved \in BOOLEAN :
         LET parsed == get_grib_inventory(idx_text)
         IN  IF ~retrieved
             THEN /\ Exit("RequestException", "index_fetch")
                  /\ pc' = "done"
                  /\ UNCHANGED inventory
             ELSE IF ~parsed.ok
             THEN /\ Exit("Exception", "index_parse")
                  /\ pc' = "done"
                  /\ UNCHANGED inventory
             ELSE /\ inventory' = parsed.inventory
                  /\ pc' = "select"
                  /\ UNCHANGED <<outcome, failure, returned>>
    /\ UNCHANGED <<idx_text, variable_name, pressure_level, target_record,
                   range_header, temp_files, temp_file_path>>
    /\ UNCHANGED notLoaderVars

\* the search loop and the `if target_record is None` exit
Select ==
    /\ pc = "select"
    /\ steps' = Append(steps, "select")
    /\ target_record' = SelectRecord(inventory, variable_name, pressure_level)
    /\ IF target_record'.some
       THEN pc' = "download" /\ UNCHANGED <<outcome, failure, returned>>
       ELSE pc' = "done" /\ Exit("not_found", "not_found")
    /\ UNCHANGED <<idx_text, variable_name, pressure_level, inventory,
                   range_header, temp_files, temp_file_path>>
    /\ UNCHANGED notLoaderVars

\* a download that asks again, once, after a failed ranged request
DownloadWithRetry ==
    /\ pc = "download"
    /\ steps' = Append(steps, "range_fetch")
    /\ range_header' = RangeHeader(inventory[target_record.v].byte_start,
                                   inventory[target_record.v].byte_end)
    /\ \E fetched \in BOOLEAN :
         IF fetched
         THEN pc' = "stage" /\ UNCHANGED <<outcome, failure, returned>>
         ELSE IF Len(steps) < 3
         THEN pc' = "download" /\ UNCHANGED <<outcome, failure, returned>>
         ELSE pc' = "done" /\ Exit("error", "fetch")
    /\ UNCHANGED <<idx_text, variable_name, pressure_level, inventory,
                   target_record, temp_files, temp_file_path>>
    /\ UNCHANGED notLoaderVars

\* grib_data = self.download_grib_subset(...): one ranged request; its
\* RequestException is caught by `except Exception` of the caller
Download ==
    /\ pc = "download"
    /\ steps' = Append(steps, "range_fetch")
    /\ range_header' = RangeHeader(inventory[target_record.v].byte_start,
                                   inventory[target_record.v].byte_end)
    /\ \E fetched \in BOOLEAN :
         IF fetched
         THEN pc' = "stage" /\ UNCHANGED <<outcome, failure, returned>>
         ELSE pc' = "done" /\ Exit("error", "fetch")
    /\ UNCHANGED <<idx_text, variable_name, pressure_level, inventory,
                   target_record, temp_files, temp_file_path>>
    /\ UNCHANGED notLoaderVars

\* with tempfile.NamedTemporaryFile(suffix='.grb2', delete=False) as
\* temp_file: temp_file.write(grib_data); temp_file_path = temp_file.name
\* The file is created with delete=False; a failing write leaves the with
\* block before temp_file_path is bound and before the try/finally is
\* entered.
Stage ==
    /\ pc = "stage"
    /\ steps' = Append(steps, "stage")
    /\ \E result \in {"written", "not_created", "write_failed"} :
         IF result = "written"
         THEN /\ temp_files' = temp_files \cup {"tmp.grb2"}
              /\ temp_file_path' = Some("tmp.grb2")
              /\ pc' = "decode"
              /\ UNCHANGED <<outcome, failure, returned>>
         ELSE IF result = "write_failed"
         THEN /\ temp_files' = temp_files \cup {"tmp.grb2"}
              /\ pc' = "done"
              /\ Exit("error", "stage")
              /\ UNCHANGED temp_file_path
         ELSE /\ pc' = "done"
              /\ Exit("error", "stage")
              /\ UNCHANGED <<temp_files, temp_file_path>>
    /\ UNCHANGED <<idx_text, variable_name, pressure_level, inventory,
                   target_record, range_header>>
    /\ UNCHANGED notLoaderVars

\* ds = xr.open_dataset(...); data_vars = list(ds.data_vars); if data_vars:
Decode ==
    /\ pc = "decode"
    /\ steps' = Append(steps, "decode")
    /\ \E result \in {"data", "no_data_vars", "raises", "raises_jpeg"} :
         IF result = "data"
         THEN pc' = "coords" /\ UNCHANGED <<outcome, failure, returned, temp_files>>
         ELSE /\ temp_files' = RemoveTempFile
              /\ pc' = "done"
              /\ IF result = "no_data_vars" THEN Exit("no_data", "decode")
                 ELSE IF result = "raises_jpeg"
                 THEN Exit("error", "unsupported_compression")
                 ELSE Exit("error", "decode")
    /\ UNCHANGED <<idx_text, variable_name, pressure_level, inventory,
                   target_record, range_header, temp_file_path>>
    /\ UNCHANGED notLoaderVars

\* coords = self._extract_coordinates(ds)
ExtractCoordinates ==
    /\ pc = "coords"
    /\ steps' = Append(steps, "coords")
    /\ \E extracted \in BOOLEAN :
         IF extracted
         THEN pc' = "convert" /\ UNCHANGED <<outcome, failure, returned, temp_files>>
         ELSE /\ temp_files' = RemoveTempFile
              /\ pc' = "done"
              /\ Exit("error", "coords")
    /\ UNCHANGED <<idx_text, variable_name, pressure_level, inventory,
                   target_record, range_header, temp_file_path>>
    /\ UNCHANGED notLoaderVars

\* var_info = ...; converted_data = self._convert_units(...); return
ConvertUnits ==
    /\ pc = "convert"
    /\ steps' = Append(steps, "convert")
    /\ \E converted \in BOOLEAN :
         IF converted THEN Exit("loaded", "none") ELSE Exit("error", "convert")
    /\ temp_files' = RemoveTempFile
    /\ pc' = "done"
    /\ UNCHANGED <<idx_text, variable_name, pressure_level, inventory,
                   target_record, range_header, temp_file_path>>
    /\ UNCHANGED notLoaderVars

LoaderNext ==
    \/ FetchInventory
    \/ Select
    \/ Download
    \/ Stage
    \/ Decode
    \/ ExtractCoordinates
    \/ ConvertUnits

Init == LoaderInit

Next == LoaderNext

Spec == Init /\ [][Next]_vars

(***************************************************************************)
(* Index texts handed to the reconciler.                                   *)
(***************************************************************************)
WIND == <<"W", "I", "N", "D">>

LevelTenMetre == <<"1", "0", " ", "m", " ", "a", "b", "o", "v", "e", " ",
                   "g", "r", "o", "u", "n", "d">>

RtmaLines(k) ==
    { RecordLine(k, TMP, LevelTwoMetre), RecordLine(k, TMP, LevelTenMetre),
      RecordLine(k, HGT, LevelSfc) }

RECURSIVE RtmaLineSeqs(_, _)
RtmaLineSeqs(k, n) ==
    IF n = 0 THEN {<<>>}
    ELSE {<<l>> \o rest : l \in RtmaLines(k), rest \in RtmaLineSeqs(k + 1, n - 1)}

RtmaTexts == {FileText(ls) : ls \in UNION {RtmaLineSeqs(1, n) : n \in 1..MaxRtmaLines}}

\* the pressure levels (mb) a generated pressure-level index may list for TMP
PressurePool == {200, 300, 500, 700, 850, 925, 1000}

RECURSIVE DescendingInts(_)
DescendingInts(S) ==
    IF S = {} THEN <<>>
    ELSE <<SetMax(S)>> \o DescendingInts(S \ {SetMax(S)})

\* the TMP levels of a generated index: descending, the first one repeated
TmpLevelOrder(S) ==
    IF S = {} THEN <<>> ELSE DescendingInts(S) \o <<SetMax(S)>>

\* what a generated pressure-level index lists besides TMP
OtherRecords ==
    { <<>>,
      <<[var |-> HGT, level |-> LevelMb(500)]>>,
      <<[var |-> WIND, level |-> LevelTenMetre]>> }

ThreeLines(S, others) ==
    LET tmp == TmpLevelOrder(S)
        all == others \o [i \in 1..Len(tmp) |-> [var |-> TMP, level |-> LevelMb(tmp[i])]]
    IN  [k \in 1..Len(all) |-> RecordLine(k, all[k].var, all[k].level)]

ThreeTexts ==
    {FileText(ThreeLines(S, others)) : S \in SUBSET PressurePool, others \in OtherRecords}

ReconInit ==
    /\ rtma_text \in RtmaTexts
    /\ three_text \in ThreeTexts
    /\ cpc = "rtma_index"
    /\ rtma_map = EmptyMapping
    /\ three_map = EmptyMapping
    /\ retrieved_idx = {}
    /\ comparisons = <<>>
    /\ result_success = "none"
    /\ log_written = FALSE
    /\ IdleExcept("recon")

(***************************************************************************)
(* compute_comparable_grids, one action per blocking step.                 *)
(***************************************************************************)
\* rtma_map = _parse_grib_index(rtma_idx): a failed GET is logged and the
\* empty mapping returned
ParseRtmaIndex ==
    /\ cpc = "rtma_index"
    /\ \E retrieved \in BOOLEAN :
         IF retrieved
         THEN /\ rtma_map' = ParseGribIndex(rtma_text)
              /\ retrieved_idx' = retrieved_idx \cup {"RTMA"}
         ELSE /\ rtma_map' = EmptyMapping
              /\ UNCHANGED retrieved_idx
    /\ cpc' = "three_index"
    /\ UNCHANGED <<rtma_text, three_text, three_map, comparisons,
                   result_success, log_written>>
    /\ UNCHANGED notReconVars

\* three_map = _parse_grib_index(three_idx)
ParseThreeIndex ==
    /\ cpc = "three_index"
    /\ \E retrieved \in BOOLEAN :
         IF retrieved
         THEN /\ three_map' = ParseGribIndex(three_text)
              /\ retrieved_idx' = retrieved_idx \cup {"3DRTMA"}
         ELSE /\ three_map' = EmptyMapping
              /\ UNCHANGED retrieved_idx
    /\ cpc' = "reconcile"
    /\ UNCHANGED <<rtma_text, three_text, rtma_map, comparisons,
                   result_success, log_written>>
    /\ UNCHANGED notReconVars

\* the loop over sorted(vars_union), the snapshot written to logs/ (a
\* failure of the write is logged and ignored) and the return
Reconcile ==
    /\ cpc = "reconcile"
    /\ comparisons' = Comparisons(rtma_map, three_map)
    /\ result_success' = "True"
    /\ \E written \in BOOLEAN : log_written' = written
    /\ cpc' = "done"
    /\ UNCHANGED <<rtma_text, three_text, rtma_map, three_map, retrieved_idx>>
    /\ UNCHANGED notReconVars

ReconNext ==
    \/ ParseRtmaIndex
    \/ ParseThreeIndex
    \/ Reconcile

SpecRecon == ReconInit /\ [][ReconNext]_vars


(***************************************************************************)
(* Properties of the loader.                                               *)
(***************************************************************************)
InventoryParsed == pc \notin {"inventory"} /\ outcome \notin Raised

\* C1: in the returned record list every non-final record has byte_end equal
\* to the byte_start of the record that follows it in the list minus one, and
\* the final record has byte_end unset.
C1_ByteEndChain ==
    InventoryParsed =>
        \A i \in 1..Len(inventory) :
            IF i < Len(inventory)
            THEN inventory[i].byte_end = Some(inventory[i + 1].byte_start - 1)
            ELSE inventory[i].byte_end = None

\* C2: parsing is lenient: get_grib_inventory fails only when the index
\* resource cannot be retrieved, never because of a short or blank line.
C2_OnlyRetrievalFails ==
    outcome \in Raised => outcome = "RequestException"

\* the selector of the claim, stated on one record
SelectorAccepts(record, code, selector) ==
    /\ record.variable = code
    /\ \/ ~selector.some
       \/ /\ selector.some /\ selector.v = 0
          /\ \E word \in {<<"s", "u", "r", "f", "a", "c", "e">>, <<"s", "f", "c">>} :
                Contains(Lower(record.level), word)
       \/ /\ selector.some /\ selector.v > 0
          /\ \E unit \in {<<" ", "m", "b">>, <<"m", "b">>} :
                Contains(record.level, IntToStr(selector.v) \o unit)

Accepted == {i \in 1..Len(inventory) :
                SelectorAccepts(inventory[i], variable_name, pressure_level)}

Selected == InventoryParsed /\ pc \notin {"select"}

\* C3: the selected record is the first record in file order that the
\* selector accepts; not-found is returned as a value, without raising,
\* exactly when no record is accepted.
C3_FirstMatchWins ==
    Selected =>
        /\ (Accepted = {}) <=> (outcome = "not_found")
        /\ (Accepted = {}) <=> ~target_record.some
        /\ Accepted # {} => target_record.v = SetMin(Accepted)

\* C3 witness: a pressure selector passes over an earlier record of the same
\* variable at another level and selects a later one.
C3_Witness ==
    /\ Selected
    /\ pressure_level.some /\ pressure_level.v > 0
    /\ target_record.some /\ target_record.v > 1
    /\ \E i \in 1..(target_record.v - 1) : inventory[i].variable = variable_name

\* C4: the range is open-ended exactly when byte_end is unset, and closed
\* for every set byte_end, byte_end = 0 included.
C4_RangeForm ==
    range_header # <<>> =>
        LET record == inventory[target_record.v]
        IN  IF record.byte_end.some
            THEN range_header = BytesEq \o IntToStr(record.byte_start) \o <<"-">>
                                   \o IntToStr(record.byte_end.v)
            ELSE range_header = BytesEq \o IntToStr(record.byte_start) \o <<"-">>

StepOrder == <<"index_fetch", "select", "range_fetch", "stage", "decode",
               "coords", "convert">>

StepRank(step) == CHOOSE r \in 1..Len(StepOrder) : StepOrder[r] = step

StepCount(step) == Cardinality({i \in 1..Len(steps) : steps[i] = step})

\* C5: the steps of one call happen in the order index fetch, selection,
\* ranged fetch, decode, unit conversion; at most one ranged fetch, no retry
\* after a failed fetch, and neither ranged fetch nor decode after not-found.
C5_StepOrder ==
    /\ \A i, j \in 1..Len(steps) :
          i < j => StepRank(steps[i]) < StepRank(steps[j])
    /\ StepCount("range_fetch") <= 1
    /\ (steps # <<>> /\ steps[Len(steps)] = "range_fetch" /\ outcome = "error")
          => pc = "done"
    /\ outcome = "not_found" =>
          StepCount("range_fetch") = 0 /\ StepCount("decode") = 0

\* C5 witness: a call that ran to the unit conversion after one ranged fetch.
C5_Witness ==
    /\ pc = "done" /\ outcome = "loaded"
    /\ StepCount("range_fetch") = 1
    /\ steps[Len(steps)] = "convert"

\* C6: when the call has returned or raised, its staging file is gone.
C6_TempFileRemoved ==
    pc = "done" => temp_files = {}

(***************************************************************************)
(* Properties of the reconciler.                                           *)
(***************************************************************************)
Entries == {comparisons[i] : i \in 1..Len(comparisons)}

HasHint(e) == e.rtma_has_2m \/ e.rtma_has_surface

LevelSet(e) == {e.three_d_levels[i] : i \in 1..Len(e.three_d_levels)}

\* the pressure values the level descriptors of a variable yield
PressuresListed(var) ==
    LET levels == LevelsOf(three_map, var)
    IN  {ExtractPressureInt(levels[i]).v :
            i \in {j \in 1..Len(levels) : ExtractPressureInt(levels[j]).some}}

\* C7: with a near-surface hint, an available level equal to the earliest
\* reference target of [1000, 925, 850, 700] that is available wins (targets
\* outer loop): [700, 850, 925, 1000] gives 1000 and {500, 850, 925} gives 925.
C7_EarliestTargetWins ==
    \A e \in Entries :
        LET present == {j \in 1..Len(Targets) : Targets[j] \in LevelSet(e)}
        IN  (HasHint(e) /\ present # {}) =>
                e.best_match_3d_level = Some(Targets[SetMin(present)])

\* C8: without a hint and with at least one pressure level, the best match is
\* the element at index floor(n/2) of the deduplicated ascending level list.
C8_MiddleIndex ==
    \A e \in Entries :
        (~HasHint(e) /\ e.three_d_levels # <<>>) =>
            LET n == Len(e.three_d_levels)
            IN  /\ \A i \in 1..(n - 1) : e.three_d_levels[i] < e.three_d_levels[i + 1]
                /\ LevelSet(e) = PressuresListed(e.variable)
                /\ e.best_match_3d_level.some
                /\ e.best_match_3d_level.v \in LevelSet(e)
                /\ Cardinality({x \in LevelSet(e) : x < e.best_match_3d_level.v}) = n \div 2

\* C8 witness: no hint for TMP and levels [200, 300, 500, 700, 850] give 500.
C8_Witness ==
    \E e \in Entries :
        /\ ~HasHint(e)
        /\ e.three_d_levels = <<200, 300, 500, 700, 850>>
        /\ e.best_match_3d_level = Some(500)

\* C9: best_match_3d_level is null exactly when no pressure level can be
\* extracted from the variable's level descriptors of the pressure dataset,
\* and a non-null best match is a member of three_d_levels.
C9_NullIffNoLevels ==
    \A e \in Entries :
        /\ ~e.best_match_3d_level.some <=> PressuresListed(e.variable) = {}
        /\ e.best_match_3d_level.some => e.best_match_3d_level.v \in LevelSet(e)

\* C9 witness: one variable listed in the pressure dataset without any
\* pressure level has a null best match, another one far from every target
\* has a level.
C9_Witness ==
    /\ \E e \in Entries :
          /\ e.variable \in DOMAIN three_map
          /\ ~e.best_match_3d_level.some
    /\ \E e \in Entries :
          /\ HasHint(e)
          /\ e.best_match_3d_level = Some(200)

\* C10: exactly one comparison entry for every variable code of the union of
\* the two inventories, and no entry for any other code.
C10_OneEntryPerUnionVariable ==
    cpc = "done" =>
        LET union == DOMAIN rtma_map \cup DOMAIN three_map
        IN  /\ \A v \in union :
                  Cardinality({i \in 1..Len(comparisons) : comparisons[i].variable = v}) = 1
            /\ \A i \in 1..Len(comparisons) : comparisons[i].variable \in union

\* C10 witness: entries for a variable only the near-surface inventory lists
\* and for a variable only the pressure inventory lists, neither comparable.
C10_Witness ==
    /\ cpc = "done"
    /\ \E e \in Entries :
          /\ e.variable \in DOMAIN rtma_map \ DOMAIN three_map
          /\ ~e.best_match_3d_level.some
    /\ \E e \in Entries :
          /\ e.variable \in DOMAIN three_map \ DOMAIN rtma_map
          /\ ~e.best_match_3d_level.some

(***************************************************************************)
(* Grid alignment, difference and point sampling: get_variable_data and    *)
(* sample_point of app.py.  A float is a record whose k is "num", "nan",   *)
(* "inf" or "-inf"; a grid is a sequence of rows of floats.  Coordinates   *)
(* are those of a rectilinear grid: lat_grid[i, j] = lat[i] and            *)
(* lon_grid[i, j] = lon[j], so lat_grid[:,0] and lon_grid[0,:] are the     *)
(* two axes.                                                               *)
(***************************************************************************)
\* longest axis of a generated grid
MaxAxis == 2

Num(n) == [k |-> "num", v |-> n]

NaN == [k |-> "nan", v |-> 0]

PosInf == [k |-> "inf", v |-> 0]

NegInf == [k |-> "-inf", v |-> 0]

\* Python None where a float is expected
NoneValue == [k |-> "None", v |-> 0]

\* np.isfinite
IsFinite(x) == x.k = "num"

\* -x
FNeg(x) ==
    IF x.k = "num" THEN Num(0 - x.v)
    ELSE IF x.k = "inf" THEN NegInf
    ELSE IF x.k = "-inf" THEN PosInf
    ELSE x

\* a - b in IEEE arithmetic
FSub(a, b) ==
    IF a.k = "nan" \/ b.k = "nan" THEN NaN
    ELSE IF a.k = "num" /\ b.k = "num" THEN Num(a.v - b.v)
    ELSE IF a.k = "num" THEN FNeg(b)
    ELSE IF b.k = "num" THEN a
    ELSE IF a.k = b.k THEN NaN
    ELSE a

\* np.abs
FAbs(x) ==
    IF x.k = "num" THEN Num(Abs(x.v))
    ELSE IF x.k = "-inf" THEN PosInf
    ELSE x

\* the cells of a grid
Cells(grid) == {grid[i][j] : i \in DOMAIN grid, j \in 1..Len(grid[1])}

\* np.nanmax: NaN cells are skipped, infinities are not; NaN when only NaN
NanMax(grid) ==
    LET cells == Cells(grid)
        nums  == {x.v : x \in {c \in cells : c.k = "num"}}
    IN  IF PosInf \in cells THEN PosInf
        ELSE IF nums # {} THEN Num(SetMax(nums))
        ELSE IF NegInf \in cells THEN NegInf
        ELSE NaN

\* ndarray.shape of a grid
Shape(grid) == <<Len(grid), IF Len(grid) = 0 THEN 0 ELSE Len(grid[1])>>

\* np.unique: the distinct values, sorted ascending
Unique(axis) == SortedInts({axis[k] : k \in DOMAIN axis})

\* np.argmin with the last occurrence of the minimum
ArgminLast(seq) ==
    CHOOSE k \in DOMAIN seq :
        /\ seq[k] = SetMin({seq[m] : m \in DOMAIN seq})
        /\ \A m \in DOMAIN seq : m > k => seq[m] # seq[k]

\* np.argmin: the first occurrence of the minimum
Argmin(seq) ==
    CHOOSE k \in DOMAIN seq :
        /\ seq[k] = SetMin({seq[m] : m \in DOMAIN seq})
        /\ \A m \in DOMAIN seq : m < k => seq[m] # seq[k]

\* np.abs(axis - value)
Distances(axis, value) == [k \in DOMAIN axis |-> Abs(axis[k] - value)]

\* resample_to_grid: the source axes go through np.unique, the indices found
\* in the sorted axes address src_data, a failed lookup gives NaN
resample_to_grid(src_data, s_lat, s_lon, t_lat, t_lon) ==
    LET src_lats == Unique(s_lat)
        src_lons == Unique(s_lon)
    IN  [i \in DOMAIN t_lat |->
            [j \in DOMAIN t_lon |->
                LET lat_idx == Argmin(Distances(src_lats, t_lat[i]))
                    lon_idx == Argmin(Distances(src_lons, t_lon[j]))
                IN  IF lat_idx \in DOMAIN src_data
                       /\ lon_idx \in DOMAIN src_data[lat_idx]
                    THEN src_data[lat_idx][lon_idx]
                    ELSE NaN]]

\* the alignment that never skips the resampling
AlwaysResampled(src_data, s_lat, s_lon, tgt_data, t_lat, t_lon) ==
    resample_to_grid(src_data, s_lat, s_lon, t_lat, t_lon)

\* datar_resampled: resampled only when the shapes differ
Aligned(src_data, s_lat, s_lon, tgt_data, t_lat, t_lon) ==
    IF Shape(src_data) # Shape(tgt_data)
    THEN resample_to_grid(src_data, s_lat, s_lon, t_lat, t_lon)
    ELSE src_data

\* data3 - datar_resampled, cell by cell
Difference(a, b) ==
    [i \in DOMAIN a |-> [j \in DOMAIN a[i] |-> FSub(a[i][j], b[i][j])]]

\* np.abs of a grid
AbsGrid(grid) ==
    [i \in DOMAIN grid |-> [j \in DOMAIN grid[i] |-> FAbs(grid[i][j])]]

\* vabs = nanmax(|diff|) if that is finite, else 0.0
ColourRange(grid) ==
    IF IsFinite(NanMax(AbsGrid(grid))) THEN NanMax(AbsGrid(grid)) ELSE Num(0)

\* i, j of the sampled cell
NearestCell(t_lat, t_lon, q) ==
    [i |-> Argmin(Distances(t_lat, q.lat)), j |-> Argmin(Distances(t_lon, q.lon))]

\* float(grid[i, j]) if np.isfinite(grid[i, j]) else None
SampleAt(grid, c) ==
    IF IsFinite(grid[c.i][c.j]) THEN grid[c.i][c.j] ELSE NoneValue


\* WeatherMapConfig.CONTOUR_LEVELS
CONTOUR_LEVELS == 20

\* np.linspace(-v, v, CONTOUR_LEVELS), each level counted in 19ths (in
\* (CONTOUR_LEVELS - 1)ths): level k is -v + k * 2v / 19
Linspace(v) ==
    [k \in 1..CONTOUR_LEVELS |->
        (2 * (k - 1) - (CONTOUR_LEVELS - 1)) * v]

\* the levels a filled contour plot accepts
Increasing(lv) == \A k \in 1..(Len(lv) - 1) : lv[k] < lv[k + 1]

\* ax.contourf(..., levels=levels): matplotlib raises ValueError ("Contour
\* levels must be increasing") for levels that do not increase
contourf(lv) == IF Increasing(lv) THEN "drawn" ELSE "ValueError"

\* axes of at most MaxAxis distinct coordinates of pool, stored ascending
AscendingAxes(pool) ==
    {SortedInts(S) : S \in {T \in SUBSET pool : Cardinality(T) \in 1..MaxAxis}}

\* the same axes stored descending (north to south, east to west)
DescendingAxes(pool) ==
    {DescendingInts(S) : S \in {T \in SUBSET pool : Cardinality(T) \in 1..MaxAxis}}

\* near-surface latitudes and longitudes
SourceLats == AscendingAxes({0, 2, 4}) \cup DescendingAxes({0, 2, 4})

SourceLons == AscendingAxes({0, 2}) \cup DescendingAxes({0, 2})

\* pressure-level latitudes and longitudes
TargetLats == AscendingAxes({0, 1, 2}) \cup DescendingAxes({0, 1, 2})

TargetLons == AscendingAxes({0, 1, 2})

\* a grid with one cell replaced
WithCell(grid, i, j, x) ==
    [r \in DOMAIN grid |->
        [c \in DOMAIN grid[r] |-> IF r = i /\ c = j THEN x ELSE grid[r][c]]]

\* near-surface values on rows x cols cells: all different, all 7, or all
\* different with a NaN or an infinite first cell
SourceGrids(rows, cols) ==
    LET distinct == [i \in 1..rows |-> [j \in 1..cols |-> Num(10 * i + j)]]
    IN  {distinct,
         [i \in 1..rows |-> [j \in 1..cols |-> Num(7)]],
         WithCell(distinct, 1, 1, NaN),
         WithCell(distinct, 1, 1, PosInf)}

\* pressure-level values: all 10, or all 10 with a NaN first cell or an
\* infinite last cell
TargetGrids(rows, cols) ==
    LET uniform == [i \in 1..rows |-> [j \in 1..cols |-> Num(10)]]
    IN  {uniform,
         WithCell(uniform, 1, 1, NaN),
         WithCell(uniform, rows, cols, NegInf),
         WithCell(uniform, rows, cols, PosInf)}

\* requested points: on a grid line, between two, outside the grid
Queries == {[lat |-> a, lon |-> o] : a \in {0 - 1, 1, 5}, o \in {1, 2}}

GridInit ==
    /\ src_lat \in SourceLats
    /\ src_lon \in SourceLons
    /\ tgt_lat \in TargetLats
    /\ tgt_lon \in TargetLons
    /\ datar \in SourceGrids(Len(src_lat), Len(src_lon))
    /\ data3 \in TargetGrids(Len(tgt_lat), Len(tgt_lon))
    /\ gpc = "loaded"
    /\ datar_resampled = <<>>
    /\ diff = <<>>
    /\ vabs = [k |-> "unset", v |-> 0]
    /\ contour_levels = <<>>
    /\ diff_response = "none"
    /\ query = [lat |-> 0, lon |-> 0]
    /\ cell = [i |-> 0, j |-> 0]
    /\ sampled = [k |-> "unset", v |-> 0]
    /\ IdleExcept("grid")

\* app.py 252-255 and 503-506: the near-surface values on the pressure grid
Align ==
    /\ gpc = "loaded"
    /\ datar_resampled' = Aligned(datar, src_lat, src_lon, data3, tgt_lat, tgt_lon)
    /\ gpc' = "aligned"
    /\ UNCHANGED <<datar, src_lat, src_lon, data3, tgt_lat, tgt_lon, diff,
                   vabs, query, cell, sampled,
                   contour_levels, diff_response>>
    /\ UNCHANGED notGridVars

\* app.py 257 and 508: diff = data3 - datar_resampled
Subtract ==
    /\ gpc = "aligned"
    /\ diff' = Difference(data3, datar_resampled)
    /\ gpc' = "diffed"
    /\ UNCHANGED <<datar, src_lat, src_lon, data3, tgt_lat, tgt_lon,
                   datar_resampled, vabs, query, cell, sampled,
                   contour_levels, diff_response>>
    /\ UNCHANGED notGridVars

\* app.py 258: the colour range of get_variable_data
Scale ==
    /\ gpc = "diffed"
    /\ vabs' = ColourRange(diff)
    /\ gpc' = "scaled"
    /\ UNCHANGED <<datar, src_lat, src_lon, data3, tgt_lat, tgt_lon,
                   datar_resampled, diff, query, cell, sampled,
                   contour_levels, diff_response>>
    /\ UNCHANGED notGridVars

\* app.py 510-517: sample_point on the difference grid
SampleDifference ==
    /\ gpc = "diffed"
    /\ \E q \in Queries :
         /\ query' = q
         /\ cell' = NearestCell(tgt_lat, tgt_lon, q)
         /\ sampled' = SampleAt(diff, NearestCell(tgt_lat, tgt_lon, q))
    /\ gpc' = "sampled_diff"
    /\ UNCHANGED <<datar, src_lat, src_lon, data3, tgt_lat, tgt_lon,
                   datar_resampled, diff, vabs,
                   contour_levels, diff_response>>
    /\ UNCHANGED notGridVars

\* app.py 579-586: sample_point on one loaded grid (here the pressure grid)
SampleLoaded ==
    /\ gpc = "loaded"
    /\ \E q \in Queries :
         /\ query' = q
         /\ cell' = NearestCell(tgt_lat, tgt_lon, q)
         /\ sampled' = SampleAt(data3, NearestCell(tgt_lat, tgt_lon, q))
    /\ gpc' = "sampled_loaded"
    /\ UNCHANGED <<datar, src_lat, src_lon, data3, tgt_lat, tgt_lon,
                   datar_resampled, diff, vabs,
                   contour_levels, diff_response>>
    /\ UNCHANGED notGridVars

\* app.py 259: levels = np.linspace(-vabs, vabs, CONTOUR_LEVELS)
ContourLevels ==
    /\ gpc = "scaled"
    /\ contour_levels' = Linspace(vabs.v)
    /\ gpc' = "levelled"
    /\ UNCHANGED <<datar, src_lat, src_lon, data3, tgt_lat, tgt_lon,
                   datar_resampled, diff, vabs, diff_response, query, cell,
                   sampled>>
    /\ UNCHANGED notGridVars

\* app.py 261-282 and 289-291: the overlay is drawn with these levels; an
\* exception of the renderer is answered with status 500
RenderDifference ==
    /\ gpc = "levelled"
    /\ diff_response' = IF contourf(contour_levels) = "ValueError" THEN "error_500"
                        ELSE "success"
    /\ gpc' = "responded"
    /\ UNCHANGED <<datar, src_lat, src_lon, data3, tgt_lat, tgt_lon,
                   datar_resampled, diff, vabs, contour_levels, query, cell, sampled>>
    /\ UNCHANGED notGridVars

GridNext ==
    \/ Align
    \/ Subtract
    \/ Scale
    \/ ContourLevels
    \/ RenderDifference
    \/ SampleDifference
    \/ SampleLoaded

SpecGrid == GridInit /\ [][GridNext]_vars

\* lowest index of an axis entry nearest to value
NearestIndex(axis, value) ==
    SetMin({k \in DOMAIN axis :
               \A m \in DOMAIN axis : Abs(axis[k] - value) <= Abs(axis[m] - value)})

\* the alignment has run and the resampler was used
Resampled == gpc # "loaded" /\ gpc # "sampled_loaded" /\ Shape(datar) # Shape(data3)

\* C13: resample_to_grid returns a grid of the target's shape whose cell
\* (i, j) holds the value of the source cell of nearest latitude and nearest
\* longitude, lowest index on ties, whatever the storage order of the source.
C13_NearestSourceCell ==
    Resampled =>
        /\ Shape(datar_resampled) = Shape(data3)
        /\ \A i \in DOMAIN tgt_lat : \A j \in DOMAIN tgt_lon :
               datar_resampled[i][j]
                   = datar[NearestIndex(src_lat, tgt_lat[i])][NearestIndex(src_lon, tgt_lon[j])]

\* the alignment has run on grids of one shape
AlignedSameShape ==
    gpc # "loaded" /\ gpc # "sampled_loaded" /\ Shape(datar) = Shape(data3)

\* C14: when near-surface and pressure-level data have the same shape the
\* near-surface values are used unchanged, whatever the coordinates.
C14_SameShapeIsIdentity == AlignedSameShape => datar_resampled = datar

\* same shape, two rows, different coordinates, values that differ by cell
C14_Witness ==
    /\ AlignedSameShape
    /\ Len(datar) = 2
    /\ <<src_lat, src_lon>> # <<tgt_lat, tgt_lon>>
    /\ datar[1][1] # datar[2][1]

\* the grid the sampler read
SampledGrid == IF gpc = "sampled_loaded" THEN data3 ELSE diff

\* C15: the sampler picks row and column by independent nearest search
\* (lowest index on ties, inside the grid) and answers None when that cell
\* is not finite and the cell's finite value otherwise.
C15_SamplerNearestCell ==
    gpc \in {"sampled_diff", "sampled_loaded"} =>
        /\ cell.i = NearestIndex(tgt_lat, query.lat)
        /\ cell.j = NearestIndex(tgt_lon, query.lon)
        /\ cell.i \in 1..Len(SampledGrid)
        /\ cell.j \in 1..Len(SampledGrid[1])
        /\ IF SampledGrid[cell.i][cell.j].k = "num"
           THEN sampled = SampledGrid[cell.i][cell.j]
           ELSE sampled = NoneValue

\* a tie between two rows, resolved to the first, on a non-finite cell
C15_Witness ==
    /\ gpc = "sampled_diff"
    /\ Len(tgt_lat) = 2
    /\ Abs(tgt_lat[1] - query.lat) = Abs(tgt_lat[2] - query.lat)
    /\ cell.i = 1
    /\ sampled = NoneValue

\* C16: the difference is pressure-level minus aligned near-surface values
\* cell by cell, and vabs is the largest absolute value over the finite
\* cells, NaN and infinite cells ignored, 0 only when no cell is finite.
C16_MaxAbsOverFiniteCells ==
    gpc = "scaled" =>
        LET finite == {c \in Cells(diff) : c.k = "num"}
        IN  /\ \A i \in DOMAIN diff : \A j \in DOMAIN diff[i] :
                   diff[i][j] = FSub(data3[i][j], datar_resampled[i][j])
            /\ vabs = IF finite = {} THEN Num(0)
                      ELSE Num(SetMax({Abs(c.v) : c \in finite}))


(***************************************************************************)
(* Unit conversion: get_variable_info and _convert_units of test.py.       *)
(* Multipliers, offsets and converted values are counted in thousandths    *)
(* (1.8 is 1800, -459.67 is -459670), raw values are whole numbers; the    *)
(* arithmetic is exact, the rounding of binary floats is left out.         *)
(***************************************************************************)
\* longest decoded array
MaxValues == 2

\* WeatherMapConfig.VARIABLE_INFO without the colour map; the unit of TMP and
\* DPT is written without its degree sign
Descriptor(name, units, multiplier) ==
    [name |-> name, units |-> units, multiplier |-> multiplier,
     has_offset |-> FALSE, offset |-> 0]

DescriptorWithOffset(name, units, multiplier, offset) ==
    [name |-> name, units |-> units, multiplier |-> multiplier,
     has_offset |-> TRUE, offset |-> offset]

VARIABLE_INFO ==
    [c \in {"GUST", "UGRD", "VGRD", "WIND", "TMP", "DPT", "RH", "PRES",
            "PRMSL", "APCP", "VIS", "TCDC", "HGT"} |->
        CASE c = "GUST"  -> Descriptor("Wind Gust", "mph", 2237)
          [] c = "UGRD"  -> Descriptor("U-Component Wind", "mph", 2237)
          [] c = "VGRD"  -> Descriptor("V-Component Wind", "mph", 2237)
          [] c = "WIND"  -> Descriptor("Wind Speed", "mph", 2237)
          [] c = "TMP"   -> DescriptorWithOffset("Temperature", "F", 1800, 0 - 459670)
          [] c = "DPT"   -> DescriptorWithOffset("Dew Point", "F", 1800, 0 - 459670)
          [] c = "RH"    -> Descriptor("Relative Humidity", "%", 1000)
          [] c = "PRES"  -> Descriptor("Pressure", "hPa", 10)
          [] c = "PRMSL" -> Descriptor("Sea Level Pressure", "hPa", 10)
          [] c = "APCP"  -> Descriptor("Precipitation", "mm", 1000)
          [] c = "VIS"   -> Descriptor("Visibility", "km", 1)
          [] c = "TCDC"  -> Descriptor("Total Cloud Cover", "%", 1000)
          [] c = "HGT"   -> Descriptor("Geopotential Height", "m", 1000)]

\* VARIABLE_INFO.get(variable_name, default)
get_variable_info(code) ==
    IF code \in DOMAIN VARIABLE_INFO
    THEN VARIABLE_INFO[code]
    ELSE Descriptor(code, "raw", 1000)

\* the conversion with the offset forgotten
MultiplyOnly(data, info) ==
    [converted |-> [k \in DOMAIN data |-> data[k] * info.multiplier],
     var_data  |-> data]

\* _convert_units: the product is a new array, the offset is added to that
\* new array in place; var_data keeps its values
convert_units(data, info) ==
    LET product == [k \in DOMAIN data |-> data[k] * info.multiplier]
    IN  [converted |-> IF info.has_offset
                       THEN [k \in DOMAIN product |-> product[k] + info.offset]
                       ELSE product,
         var_data  |-> data]

\* codes requested: every code of the table, a lower-case code, a code of
\* no table
ConversionCodes == DOMAIN VARIABLE_INFO \cup {"tmp", "CAPE"}

\* decoded arrays: Kelvin temperatures, zero, a negative wind component
RawArrays ==
    UNION {[1..n -> {0 - 5, 0, 273, 300}] : n \in 1..MaxValues}

ConvInit ==
    /\ var_code \in ConversionCodes
    /\ raw \in RawArrays
    /\ var_data = raw
    /\ var_info = [name |-> "", units |-> "", multiplier |-> 0, has_offset |-> FALSE, offset |-> 0]
    /\ converted_data = <<>>
    /\ vpc = "decoded"
    /\ IdleExcept("conv")

\* test.py 274: var_info = self.get_variable_info(variable_name)
LookupInfo ==
    /\ vpc = "decoded"
    /\ var_info' = get_variable_info(var_code)
    /\ vpc' = "described"
    /\ UNCHANGED <<var_code, raw, var_data, converted_data>>
    /\ UNCHANGED notConvVars

\* test.py 275: converted_data = self._convert_units(var_data, var_info)
ApplyConversion ==
    /\ vpc = "described"
    /\ converted_data' = convert_units(var_data, var_info).converted
    /\ var_data' = convert_units(var_data, var_info).var_data
    /\ vpc' = "converted"
    /\ UNCHANGED <<var_code, raw, var_info>>
    /\ UNCHANGED notConvVars

ConvNext ==
    \/ LookupInfo
    \/ ApplyConversion

SpecConvert == ConvInit /\ [][ConvNext]_vars

\* C17: the loaded values are raw * multiplier, plus the offset when the
\* descriptor of the variable table has one; a code outside the table gets
\* units 'raw', multiplier 1 and no offset, so its values are unchanged; the
\* raw array keeps its values.
C17_ConversionByTable ==
    vpc = "converted" =>
        /\ Len(converted_data) = Len(raw)
        /\ var_data = raw
        /\ IF var_code \in DOMAIN VARIABLE_INFO
           THEN /\ var_info = VARIABLE_INFO[var_code]
                /\ \A k \in DOMAIN raw :
                       converted_data[k]
                           = raw[k] * VARIABLE_INFO[var_code].multiplier
                             + (IF VARIABLE_INFO[var_code].has_offset
                                THEN VARIABLE_INFO[var_code].offset ELSE 0)
           ELSE /\ var_info.units = "raw"
                /\ ~var_info.has_offset
                /\ \A k \in DOMAIN raw : converted_data[k] = 1000 * raw[k]

\* 273 K converted to 31.73 F
C17_Witness ==
    /\ vpc = "converted"
    /\ var_code = "TMP"
    /\ raw = <<273>>
    /\ converted_data = <<31730>>


(***************************************************************************)
(* Coordinate extraction: _extract_coordinates of test.py.  Coordinates    *)
(* are whole degrees.  A decoded coordinate array is a record of its       *)
(* number of dimensions and its values (a sequence, or rows of cells).     *)
(***************************************************************************)
\* longest decoded coordinate axis
MaxCoords == 2

\* np.meshgrid(lons, lats): both grids have len(lats) rows, len(lons) columns
Meshgrid(lons, lats) ==
    [lon_grid |-> [i \in DOMAIN lats |-> [j \in DOMAIN lons |-> lons[j]]],
     lat_grid |-> [i \in DOMAIN lats |-> [j \in DOMAIN lons |-> lats[i]]]]

\* the grids before the longitude adjustment
CoordinateGrids(lats, lons) ==
    IF lats.ndim = 1
    THEN Meshgrid(lons.values, lats.values)
    ELSE [lon_grid |-> lons.values, lat_grid |-> lats.values]

\* ndarray.max() of a grid of whole degrees
GridMax(grid) == SetMax({grid[i][j] : i \in DOMAIN grid, j \in 1..Len(grid[1])})

\* the longitude grid returned as built
NotWrapped(grid) == grid

\* np.where(lon_grid > 180, lon_grid - 360, lon_grid), when the maximum
\* exceeds 180
WrapLongitude(grid) ==
    IF GridMax(grid) > 180
    THEN [i \in DOMAIN grid |->
            [j \in DOMAIN grid[i] |->
                IF grid[i][j] > 180 THEN grid[i][j] - 360 ELSE grid[i][j]]]
    ELSE grid

\* decoded latitude axes
LatitudeAxes == UNION {[1..n -> {20, 50}] : n \in 1..MaxCoords}

\* decoded longitude axes, in the 0..360 or in the -180..180 convention
LongitudeAxes ==
    UNION {[1..n -> {0 - 180, 0 - 120, 0, 180, 181, 240, 360}] : n \in 1..MaxCoords}

\* a curvilinear 2-D array over an axis: each row shifted by one degree
\* towards 90
Skewed(axis, rows) ==
    [i \in 1..rows |->
        [j \in DOMAIN axis |->
            IF axis[j] > 90 THEN axis[j] - (i - 1) ELSE axis[j] + (i - 1)]]

CoordInit ==
    /\ \E lats \in LatitudeAxes, lons \in LongitudeAxes :
         \/ /\ ds_latitude = [ndim |-> 1, values |-> lats]
            /\ ds_longitude = [ndim |-> 1, values |-> lons]
         \/ /\ ds_latitude = [ndim |-> 2, values |-> Meshgrid(lons, lats).lat_grid]
            /\ ds_longitude = [ndim |-> 2, values |-> Skewed(lons, Len(lats))]
    /\ lat_grid = <<>>
    /\ lon_grid = <<>>
    /\ xpc = "decoded"
    /\ IdleExcept("coord")

\* test.py 394-397: 1-D axes become grids, 2-D arrays are taken as they are
BuildGrids ==
    /\ xpc = "decoded"
    /\ lat_grid' = CoordinateGrids(ds_latitude, ds_longitude).lat_grid
    /\ lon_grid' = CoordinateGrids(ds_latitude, ds_longitude).lon_grid
    /\ xpc' = "gridded"
    /\ UNCHANGED <<ds_latitude, ds_longitude>>
    /\ UNCHANGED notCoordVars

\* test.py 399-403: the longitude adjustment and the return
AdjustLongitude ==
    /\ xpc = "gridded"
    /\ lon_grid' = WrapLongitude(lon_grid)
    /\ xpc' = "extracted"
    /\ UNCHANGED <<ds_latitude, ds_longitude, lat_grid>>
    /\ UNCHANGED notCoordVars

CoordNext ==
    \/ BuildGrids
    \/ AdjustLongitude

SpecCoord == CoordInit /\ [][CoordNext]_vars

\* the decoded longitude behind cell (i, j) of the returned grid
DecodedLongitude(i, j) ==
    IF ds_longitude.ndim = 1 THEN ds_longitude.values[j]
    ELSE ds_longitude.values[i][j]

\* C18: after coordinate extraction every longitude of lon_grid lies in
\* [-180, 180] (a decoded value above 180 has 360 subtracted, any other is
\* kept) and lat_grid and lon_grid have the same shape.
C18_LongitudeRange ==
    xpc = "extracted" =>
        /\ Shape(lat_grid) = Shape(lon_grid)
        /\ \A i \in DOMAIN lat_grid : Len(lon_grid[i]) = Len(lat_grid[i])
        /\ \A i \in DOMAIN lon_grid : \A j \in DOMAIN lon_grid[i] :
               /\ lon_grid[i][j] >= 0 - 180
               /\ lon_grid[i][j] <= 180
               /\ lon_grid[i][j] = IF DecodedLongitude(i, j) > 180
                                   THEN DecodedLongitude(i, j) - 360
                                   ELSE DecodedLongitude(i, j)

\* 1-D axes with 240 E and 180 E: 240 became -120, 180 was kept
C18_Witness ==
    /\ xpc = "extracted"
    /\ ds_longitude = [ndim |-> 1, values |-> <<240, 180>>]
    /\ Len(lat_grid) = 2
    /\ lon_grid[2] = <<0 - 120, 180>>


(***************************************************************************)
(* URL generation: WeatherMapGenerator.generate_urls of test.py and the    *)
(* index URL of check_data_availability of app.py.  A pattern is the       *)
(* sequence of its literal pieces and replacement fields.                  *)
(***************************************************************************)
\* no data_source argument
NoSource == [given |-> FALSE, key |-> ""]

Source(key) == [given |-> TRUE, key |-> key]

\* a literal piece and a replacement field of a pattern
Literal(text) == [field |-> "", text |-> text]

Field(name) == [field |-> name, text |-> <<>>]

RtmaBaseUrl ==
    <<"h", "t", "t", "p", "s", ":", "/", "/", "n", "o", "a", "a", "-", "r",
      "t", "m", "a", "-", "p", "d", "s", ".", "s", "3", ".", "a", "m", "a",
      "z", "o", "n", "a", "w", "s", ".", "c", "o", "m">>

ThreeBaseUrl ==
    <<"h", "t", "t", "p", "s", ":", "/", "/", "n", "o", "a", "a", "-", "n",
      "w", "s", "-", "3", "d", "r", "t", "m", "a", "-", "p", "d", "s", ".",
      "s", "3", ".", "a", "m", "a", "z", "o", "n", "a", "w", "s", ".", "c",
      "o", "m">>

\* '{base_url}/rtma2p5.{date}/rtma2p5.t{hour:02d}z.' + tail
RtmaPattern(tail) ==
    <<Field("base_url"),
      Literal(<<"/", "r", "t", "m", "a", "2", "p", "5", ".">>),
      Field("date"),
      Literal(<<"/", "r", "t", "m", "a", "2", "p", "5", ".", "t">>),
      Field("hour:02d"),
      Literal(<<"z", ".">> \o tail)>>

\* '{base_url}/3drtma/.../rtma3d.{date}/{hour:02d}/rtma3d.t{hour:02d}z.' + tail
ThreePattern(tail) ==
    <<Field("base_url"),
      Literal(<<"/", "3", "d", "r", "t", "m", "a", "/", "r", "e", "s", "u", "l", "t",
                "s", "/", "r", "t", "m", "a", "_", "a", "/", "r", "t", "m", "a", "3",
                "d", "_", "h", "r", "r", "r", ".", "v", "1", ".", "0", ".", "0", "/",
                "p", "r", "o", "d", "/", "r", "t", "m", "a", "3", "d", ".">>),
      Field("date"),
      Literal(<<"/">>),
      Field("hour:02d"),
      Literal(<<"/", "r", "t", "m", "a", "3", "d", ".", "t">>),
      Field("hour:02d"),
      Literal(<<"z", ".">> \o tail)>>

IdxSuffix == <<".", "i", "d", "x">>

Tail2d ==
    <<"2", "d", "v", "a", "r", "a", "n", "l", "_", "n", "d", "f", "d", ".",
      "g", "r", "b", "2", "_", "w", "e", "x", "p">>

Tail3d ==
    <<"3", "d", "v", "a", "r", "a", "n", "l", "_", "n", "d", "f", "d", ".",
      "g", "r", "b", "2", "_", "w", "e", "x", "p">>

TailPrslev ==
    <<"a", "n", "l", "_", "p", "r", "s", "l", "e", "v", "_", "n", "d", "f",
      "d", ".", "g", "r", "i", "b", "2">>

\* WeatherMapConfig.DATA_SOURCES: base URL and the two patterns
DATA_SOURCES ==
    [k \in {"RTMA", "RTMA-PRES", "3DRTMA"} |->
        CASE k = "RTMA" ->
               [base_url |-> RtmaBaseUrl,
                grib_pattern |-> RtmaPattern(Tail2d),
                idx_pattern |-> RtmaPattern(Tail2d \o IdxSuffix)]
          [] k = "RTMA-PRES" ->
               [base_url |-> RtmaBaseUrl,
                grib_pattern |-> RtmaPattern(Tail3d),
                idx_pattern |-> RtmaPattern(Tail3d \o IdxSuffix)]
          [] k = "3DRTMA" ->
               [base_url |-> ThreeBaseUrl,
                grib_pattern |-> ThreePattern(TailPrslev),
                idx_pattern |-> ThreePattern(TailPrslev \o IdxSuffix)]]

DEFAULT_DATA_SOURCE == "RTMA"

\* format(hour, '02d'): at least two characters, padded with zeros
TwoDigits(n) ==
    IF n >= 0 /\ n < 10 THEN <<"0">> \o IntToStr(n) ELSE IntToStr(n)

\* the text one piece of a pattern contributes
Piece(part, base_url, d, h) ==
    IF part.field = "" THEN part.text
    ELSE IF part.field = "base_url" THEN base_url
    ELSE IF part.field = "date" THEN d
    ELSE TwoDigits(h)

RECURSIVE Format(_, _, _, _)
\* pattern.format(base_url=..., date=..., hour=...)
Format(pattern, base_url, d, h) ==
    IF pattern = <<>> THEN <<>>
    ELSE Piece(Head(pattern), base_url, d, h) \o Format(Tail(pattern), base_url, d, h)

\* generate_urls: the default source stands in for a missing argument only;
\* a key outside the registry raises ValueError
generate_urls(d, h, source) ==
    LET key == IF ~source.given THEN DEFAULT_DATA_SOURCE ELSE source.key
    IN  IF key \notin DOMAIN DATA_SOURCES
        THEN [outcome |-> "ValueError", grib_url |-> <<>>, idx_url |-> <<>>]
        ELSE [outcome |-> "returned",
              grib_url |-> Format(DATA_SOURCES[key].grib_pattern,
                                  DATA_SOURCES[key].base_url, d, h),
              idx_url  |-> Format(DATA_SOURCES[key].idx_pattern,
                                  DATA_SOURCES[key].base_url, d, h)]

\* check_data_availability: the index URL, the default source standing in
\* for any key outside the registry
AvailabilityIndexUrl(d, h, source) ==
    LET key == IF ~source.given \/ source.key \notin DOMAIN DATA_SOURCES
               THEN DEFAULT_DATA_SOURCE ELSE source.key
    IN  Format(DATA_SOURCES[key].idx_pattern, DATA_SOURCES[key].base_url, d, h)

\* requested keys: none, the three registered, two unregistered
RequestedSources ==
    {NoSource} \cup {Source(k) : k \in {"RTMA", "RTMA-PRES", "3DRTMA", "HRRR", "rtma"}}

RequestedDates ==
    {<<"2", "0", "2", "5", "0", "8", "1", "4">>,
     <<"2", "0", "2", "4", "1", "2", "3", "1">>}

RequestedHours == {0, 6, 12, 23}

UrlInit ==
    /\ data_source \in RequestedSources
    /\ date \in RequestedDates
    /\ hour \in RequestedHours
    /\ grib_url = <<>>
    /\ idx_url = <<>>
    /\ url_outcome = "running"
    /\ upc = "requested"
    /\ IdleExcept("url")

\* test.py 1115-1131
GenerateUrls ==
    /\ upc = "requested"
    /\ grib_url' = generate_urls(date, hour, data_source).grib_url
    /\ idx_url' = generate_urls(date, hour, data_source).idx_url
    /\ url_outcome' = generate_urls(date, hour, data_source).outcome
    /\ upc' = "generated"
    /\ UNCHANGED <<data_source, date, hour>>
    /\ UNCHANGED notUrlVars

\* app.py 310-322
BuildAvailabilityUrl ==
    /\ upc = "requested"
    /\ idx_url' = AvailabilityIndexUrl(date, hour, data_source)
    /\ url_outcome' = "returned"
    /\ upc' = "availability"
    /\ UNCHANGED <<data_source, date, hour, grib_url>>
    /\ UNCHANGED notUrlVars

UrlNext ==
    \/ GenerateUrls
    \/ BuildAvailabilityUrl

SpecUrls == UrlInit /\ [][UrlNext]_vars

\* a key was given that the registry does not hold
UnknownKeyRequested == data_source.given /\ data_source.key \notin DOMAIN DATA_SOURCES

\* C19: for a key outside the registry URL generation does not fail and
\* produces the binary and index URLs of the default source RTMA.
C19_UnknownKeyFallsBack ==
    (upc \in {"generated", "availability"} /\ UnknownKeyRequested) =>
        /\ url_outcome = "returned"
        /\ idx_url = Format(DATA_SOURCES["RTMA"].idx_pattern, RtmaBaseUrl, date, hour)
        /\ upc = "generated" =>
               grib_url = Format(DATA_SOURCES["RTMA"].grib_pattern, RtmaBaseUrl, date, hour)


(***************************************************************************)
(* Date normalisation: date_to_yyyymmdd of app_utils.py.  The argument is  *)
(* a record of its Python type and its text (for an int, its digits).      *)
(***************************************************************************)
PyStr(text) == [type |-> "str", text |-> text]

PyNone == [type |-> "NoneType", text |-> <<>>]

PyIntValue(digits) == [type |-> "int", text |-> digits]

\* bool(value): None, '' and 0 are false
Truthy(value) ==
    IF value.type = "str" THEN value.text # <<>>
    ELSE IF value.type = "int" THEN DigitsValue(value.text) # 0
    ELSE FALSE

\* the group (?P<m>1[0-2]|0[1-9]|[1-9]) of strptime, matched to the end
MonthGroup(t) ==
    \/ Len(t) = 2 /\ t[1] = "1" /\ t[2] \in {"0", "1", "2"}
    \/ Len(t) = 2 /\ t[1] = "0" /\ t[2] \in Digits \ {"0"}
    \/ Len(t) = 1 /\ t[1] \in Digits \ {"0"}

\* the group (?P<d>3[0-1]|[1-2]\d|0[1-9]|[1-9]| [1-9]), matched to the end
DayGroup(t) ==
    \/ Len(t) = 2 /\ t[1] = "3" /\ t[2] \in {"0", "1"}
    \/ Len(t) = 2 /\ t[1] \in {"1", "2"} /\ t[2] \in Digits
    \/ Len(t) = 2 /\ t[1] \in {"0", " "} /\ t[2] \in Digits \ {"0"}
    \/ Len(t) = 1 /\ t[1] \in Digits \ {"0"}

\* calendar.monthrange
DaysInMonth(y, m) ==
    IF m = 2
    THEN IF y % 4 = 0 /\ (y % 100 # 0 \/ y % 400 = 0) THEN 29 ELSE 28
    ELSE IF m \in {4, 6, 9, 11} THEN 30 ELSE 31

\* datetime.strptime(text, '%Y-%m-%d'): four digits, month group, day group
\* with literal '-' between and nothing after; then the date must exist
\* (MINYEAR is 1)
strptime(text) ==
    LET parts == Split(text, "-")
    IN  IF /\ Len(parts) = 3
           /\ Len(parts[1]) = 4
           /\ AllDigits(parts[1])
           /\ MonthGroup(parts[2])
           /\ DayGroup(parts[3])
        THEN LET y == DigitsValue(parts[1])
                 m == DigitsValue(parts[2])
                 d == DigitsValue(Strip(parts[3]))
             IN  IF y >= 1 /\ d <= DaysInMonth(y, m)
                 THEN [ok |-> TRUE, year |-> y, month |-> m, day |-> d]
                 ELSE [ok |-> FALSE, year |-> 0, month |-> 0, day |-> 0]
        ELSE [ok |-> FALSE, year |-> 0, month |-> 0, day |-> 0]

\* n as at least four digits
FourDigits(n) ==
    IF n < 10 THEN <<"0", "0", "0">> \o IntToStr(n)
    ELSE IF n < 100 THEN <<"0", "0">> \o IntToStr(n)
    ELSE IF n < 1000 THEN <<"0">> \o IntToStr(n)
    ELSE IntToStr(n)

\* dt.strftime('%Y%m%d'): whether %Y pads a year below 1000 with zeros is
\* left to the platform's C library
strftime(dt, pads_year) ==
    (IF pads_year THEN FourDigits(dt.year) ELSE IntToStr(dt.year))
        \o TwoDigits(dt.month) \o TwoDigits(dt.day)

\* date_to_yyyymmdd; strptime of a value that is no str raises TypeError,
\* which the except clause turns into ValueError like every other failure
date_to_yyyymmdd(value, pads_year) ==
    IF ~Truthy(value)
    THEN [outcome |-> "ValueError", value |-> <<>>]
    ELSE IF value.type = "str" /\ Len(value.text) = 8 /\ AllDigits(value.text)
    THEN [outcome |-> "returned", value |-> value.text]
    ELSE IF value.type = "str" /\ strptime(value.text).ok
    THEN [outcome |-> "returned", value |-> strftime(strptime(value.text), pads_year)]
    ELSE [outcome |-> "ValueError", value |-> <<>>]

\* pieces of the generated date texts
YearTexts == {<<"2", "0", "2", "5">>, <<"2", "0", "2", "4">>, <<"0", "9", "9", "9">>}

SeparatorTexts == {<<"-">>, <<"/">>, <<>>}

MonthTexts == {<<"0", "8">>, <<"8">>, <<"0", "2">>, <<"1", "3">>, <<"0", "0">>}

DayTexts == {<<"1", "4">>, <<"4">>, <<" ", "4">>, <<"2", "9">>, <<"3", "0">>, <<"0", "0">>}

\* year, month and day joined by one separator: the two accepted forms,
\* other separators, short and long digit strings, dates that do not exist
JoinedDates ==
    {y \o sep \o m \o sep \o d :
        y \in YearTexts, sep \in SeparatorTexts, m \in MonthTexts, d \in DayTexts}

\* further arguments: empty, trailing text, nine digits, letters, no str
OtherDates ==
    {PyStr(t) : t \in {<<>>, <<"2", "0", "2", "5", "-", "0", "8", "-", "1", "4", " ">>, <<"2", "0", "2", "5", "-", "0", "8", "-", "1", "4", "-">>, <<"2", "0", "2", "5", "0", "8", "1", "4", "0">>, <<"a", "b", "c", "d", "e", "f", "g", "h">>, <<"2", "0", "2", "5", "-", "0", "8", "-", "1", "x">>, <<"9", "9", "9", "-", "0", "1", "-", "0", "1">>}}
        \cup {PyNone, PyIntValue(<<"0">>), PyIntValue(<<"2", "0", "2", "5", "0", "8", "1", "4">>)}

DateInit ==
    /\ date_str \in {PyStr(t) : t \in JoinedDates} \cup OtherDates
    /\ date_result = [outcome |-> "running", value |-> <<>>]
    /\ dpc = "called"
    /\ IdleExcept("date")

\* app_utils.py 4-18
NormaliseDate ==
    /\ dpc = "called"
    /\ \E pads_year \in BOOLEAN :
         date_result' = date_to_yyyymmdd(date_str, pads_year)
    /\ dpc' = "done"
    /\ UNCHANGED date_str
    /\ UNCHANGED notDateVars

DateNext == NormaliseDate

SpecDate == DateInit /\ [][DateNext]_vars

\* text is YYYY-MM-DD: four, two and two digits that name an existing date
DashedDate(t) ==
    /\ Len(t) = 10
    /\ t[5] = "-"
    /\ t[8] = "-"
    /\ \A i \in {1, 2, 3, 4, 6, 7, 9, 10} : t[i] \in Digits
    /\ DigitsValue(SubSeq(t, 1, 4)) >= 1
    /\ DigitsValue(SubSeq(t, 6, 7)) \in 1..12
    /\ DigitsValue(SubSeq(t, 9, 10))
           \in 1..DaysInMonth(DigitsValue(SubSeq(t, 1, 4)), DigitsValue(SubSeq(t, 6, 7)))

\* C20: date_to_yyyymmdd returns an 8-digit text unchanged, returns the
\* 8-character YYYYMMDD text for a YYYY-MM-DD date, and raises ValueError,
\* never another exception, for an empty string, None, another separator
\* and a digit string of the wrong length.
C20_DateNormalised ==
    dpc = "done" =>
        /\ date_result.outcome \in {"returned", "ValueError"}
        /\ (date_str.type = "str" /\ Len(date_str.text) = 8 /\ AllDigits(date_str.text))
               => date_result = [outcome |-> "returned", value |-> date_str.text]
        /\ (date_str.type = "str" /\ DashedDate(date_str.text))
               => /\ date_result.outcome = "returned"
                  /\ Len(date_result.value) = 8
                  /\ date_result.value = SubSeq(date_str.text, 1, 4)
                         \o SubSeq(date_str.text, 6, 7) \o SubSeq(date_str.text, 9, 10)
        /\ (\/ date_str.type = "NoneType"
            \/ date_str.text = <<>>
            \/ "/" \in {date_str.text[i] : i \in DOMAIN date_str.text}
            \/ date_str.type = "str" /\ AllDigits(date_str.text) /\ Len(date_str.text) # 8)
               => date_result.outcome = "ValueError"


(***************************************************************************)
(* Pressure-level validation: validate_pressure_level of app_utils.py.     *)
(* The argument is a record of its Python type with its text (str), its    *)
(* value (int) or its whole part and tenths (float).                       *)
(***************************************************************************)
LevelStr(text) == [type |-> "str", text |-> text, num |-> 0, frac |-> 0]

LevelNone == [type |-> "NoneType", text |-> <<>>, num |-> 0, frac |-> 0]

LevelInt(n) == [type |-> "int", text |-> <<>>, num |-> n, frac |-> 0]

\* the float whole + tenths / 10
LevelFloat(whole, tenths) == [type |-> "float", text |-> <<>>, num |-> whole, frac |-> tenths]

\* int(text): surrounding whitespace ignored, one optional sign, then a
\* non-empty run of decimal digits; anything else raises ValueError.  The
\* texts of the model hold no underscore.
PyIntSigned(s) ==
    LET t    == Strip(s)
        body == IF t # <<>> /\ t[1] \in {"+", "-"} THEN Tail(t) ELSE t
    IN  IF AllDigits(body)
        THEN [ok |-> TRUE,
              v  |-> IF t[1] = "-" THEN 0 - DigitsValue(body) ELSE DigitsValue(body)]
        ELSE [ok |-> FALSE, v |-> 0]

\* int(value) of a str, an int or a finite float: a float is truncated
PyIntOf(value) ==
    IF value.type = "str" THEN PyIntSigned(value.text)
    ELSE IF value.type \in {"int", "float"} THEN [ok |-> TRUE, v |-> value.num]
    ELSE [ok |-> FALSE, v |-> 0]

\* validate_pressure_level: None and blank strings are refused first, every
\* failure of int() becomes ValueError
validate_pressure_level(value) ==
    IF value.type = "NoneType" \/ (value.type = "str" /\ Strip(value.text) = <<>>)
    THEN [outcome |-> "ValueError", value |-> 0]
    ELSE IF PyIntOf(value).ok
    THEN [outcome |-> "returned", value |-> PyIntOf(value).v]
    ELSE [outcome |-> "ValueError", value |-> 0]

\* pieces of the generated level texts
LevelSigns == {<<>>, <<"-">>, <<"+">>}

LevelBodies == {<<"8", "5", "0">>, <<"5", "0">>, <<"0">>, <<"1", "2", ".", "3">>, <<"a", "b", "c">>, <<>>, <<"1", "e", "3">>, <<"8", " ", "5", "0">>}

LevelPaddings == {<<>>, <<" ">>}

LevelTexts ==
    {before \o sign \o body \o after :
        before \in LevelPaddings, sign \in LevelSigns, body \in LevelBodies,
        after \in LevelPaddings}

\* the arguments: texts, ints, floats with and without a fraction, None
LevelValues ==
    {LevelStr(t) : t \in LevelTexts}
        \cup {LevelInt(n) : n \in {0 - 5, 0, 500, 850}}
        \cup {LevelFloat(12, 3), LevelFloat(12, 0), LevelFloat(850, 5), LevelNone}

LevelInit ==
    /\ level_value \in LevelValues
    /\ level_result = [outcome |-> "running", value |-> 0]
    /\ lpc = "called"
    /\ IdleExcept("level")

\* app_utils.py 21-31
ValidateLevel ==
    /\ lpc = "called"
    /\ level_result' = validate_pressure_level(level_value)
    /\ lpc' = "done"
    /\ UNCHANGED level_value
    /\ UNCHANGED notLevelVars

LevelNext == ValidateLevel

SpecLevel == LevelInit /\ [][LevelNext]_vars

\* text is an integer literal: digits only
IntegerLiteral(t) == t # <<>> /\ \A i \in DOMAIN t : t[i] \in Digits

\* text holds a character that no integer literal has
NotInteger(t) ==
    \E i \in DOMAIN t : t[i] \notin Digits \cup {"+", "-", " "}

\* C21: validate_pressure_level returns the value of an int and of an
\* integer-literal string, and raises ValueError, never another exception,
\* for None, empty and blank strings, non-numeric strings and numeric input
\* that is not an integer, whether text ('12.3') or number (12.3).
C21_LevelValidated ==
    lpc = "done" =>
        /\ level_result.outcome \in {"returned", "ValueError"}
        /\ level_value.type = "int"
               => level_result = [outcome |-> "returned", value |-> level_value.num]
        /\ (level_value.type = "str" /\ IntegerLiteral(level_value.text))
               => level_result = [outcome |-> "returned",
                                  value |-> DigitsValue(level_value.text)]
        /\ (\/ level_value.type = "NoneType"
            \/ level_value.type = "str"
                   /\ \A i \in DOMAIN level_value.text : level_value.text[i] = " "
            \/ level_value.type = "str" /\ NotInteger(level_value.text)
            \/ level_value.type = "float" /\ level_value.frac # 0)
               => level_result.outcome = "ValueError"


(***************************************************************************)
(* The generator singleton: get_weather_generator of app.py, called by     *)
(* request threads of the threaded development server (app.run).  The      *)
(* global is tested, the object constructed, the global stored and then    *)
(* read again for the return; no lock is held.                             *)
(***************************************************************************)
\* request threads
MaxRequests == 3

Requests == 1..MaxRequests

SingleInit ==
    /\ weather_generator = 0
    /\ instances = 0
    /\ rpc = [t \in Requests |-> "start"]
    /\ built = [t \in Requests |-> 0]
    /\ got = [t \in Requests |-> 0]
    /\ IdleExcept("single")

\* app.py 36: if weather_generator is None
TestGlobal(t) ==
    /\ rpc[t] = "start"
    /\ rpc' = [rpc EXCEPT ![t] = IF weather_generator = 0 THEN "construct" ELSE "return"]
    /\ UNCHANGED <<weather_generator, instances, built, got>>
    /\ UNCHANGED notSingleVars

\* app.py 39-41, right-hand side: import and WeatherMapGenerator(); an
\* exception is logged and raised again (app.py 42-44)
ConstructGenerator(t) ==
    /\ rpc[t] = "construct"
    /\ \E ok \in BOOLEAN :
         IF ok
         THEN /\ instances' = instances + 1
              /\ built' = [built EXCEPT ![t] = instances + 1]
              /\ rpc' = [rpc EXCEPT ![t] = "store"]
         ELSE /\ rpc' = [rpc EXCEPT ![t] = "raised"]
              /\ UNCHANGED <<instances, built>>
    /\ UNCHANGED <<weather_generator, got>>
    /\ UNCHANGED notSingleVars

\* app.py 41, the assignment to the global
StoreGlobal(t) ==
    /\ rpc[t] = "store"
    /\ weather_generator' = built[t]
    /\ rpc' = [rpc EXCEPT ![t] = "return"]
    /\ UNCHANGED <<instances, built, got>>
    /\ UNCHANGED notSingleVars

\* app.py 45: return weather_generator
ReturnGlobal(t) ==
    /\ rpc[t] = "return"
    /\ got' = [got EXCEPT ![t] = weather_generator]
    /\ rpc' = [rpc EXCEPT ![t] = "returned"]
    /\ UNCHANGED <<weather_generator, instances, built>>
    /\ UNCHANGED notSingleVars

SingleNext ==
    \E t \in Requests :
        \/ TestGlobal(t)
        \/ ConstructGenerator(t)
        \/ StoreGlobal(t)
        \/ ReturnGlobal(t)

SpecSingleton == SingleInit /\ [][SingleNext]_vars

\* C24: across all requests, concurrent first requests included, the
\* generator is constructed at most once and every successful call returns
\* the same instance.
C24_ConstructedOnce ==
    /\ instances <= 1
    /\ \A t \in DOMAIN rpc : \A u \in DOMAIN rpc :
           (rpc[t] = "returned" /\ rpc[u] = "returned") => got[t] = got[u]


(***************************************************************************)
(* Artifacts of /generate_map and of the difference branch of              *)
(* /get_variable_data (app.py), with create_single_variable_weather_map    *)
(* (test.py).  All requests ask for one date and hour, so a file name is   *)
(* its prefix and the one field that varies: the data source for           *)
(* weather_map_{data_source}_{date}_{hour}Z.html, the variable for         *)
(* diff_{variable}_{date}_{hour}Z.png.  A content is the variable and the  *)
(* level that were drawn.                                                  *)
(***************************************************************************)
\* requests in flight
MaxMapRequests == 2

MapRequests == 1..MaxMapRequests

\* no file, nothing rendered
NoContent == [variable |-> "", level |-> None]

\* no URL in a response
NoName == [prefix |-> "", key |-> ""]

\* output_filename of generate_map
MapName(request) == [prefix |-> "weather_map", key |-> request.data_source]

\* png_filename of the difference branch
DiffName(request) == [prefix |-> "diff", key |-> request.variable]

FileNames ==
    {[prefix |-> "weather_map", key |-> k] : k \in {"RTMA", "3DRTMA"}}
        \cup {[prefix |-> "diff", key |-> k] : k \in {"TMP", "HGT", "CAPE"}}

\* the level handed to the map generator: none for the surface source
MapLevel(request) ==
    IF request.data_source = "RTMA" THEN None ELSE request.level

\* the variable create_single_variable_weather_map draws: the first
\* available one when the requested one is not available
RenderedVariable(variable, available_variables) ==
    IF variable \in {available_variables[i] : i \in DOMAIN available_variables}
    THEN variable
    ELSE available_variables[1]

\* best_match_3d_level of a variable for the date and hour of the requests
DiffLevel(variable) == IF variable = "TMP" THEN Some(850) ELSE Some(500)

\* the answer to a failed request
Failure(status) == [status |-> status, url |-> NoName, variable |-> ""]

\* payloads: map requests for the surface source and for the pressure
\* source without and with a level, difference requests; TMP, HGT and a
\* variable no inventory lists
MapPayloads ==
    {[kind |-> "map", variable |-> v, data_source |-> src.s, level |-> src.l] :
        v \in {"TMP", "HGT", "CAPE"},
        src \in {[s |-> "RTMA", l |-> None], [s |-> "3DRTMA", l |-> None],
                 [s |-> "3DRTMA", l |-> Some(850)]}}
    \cup
    {[kind |-> "diff", variable |-> v, data_source |-> "3DRTMA_minus_RTMA", level |-> None] :
        v \in {"TMP", "HGT", "CAPE"}}

ArtifactInit ==
    /\ available \in {<<"HGT", "TMP">>, <<"TMP">>}
    /\ map_requests \in [MapRequests -> MapPayloads]
    /\ apc = [r \in MapRequests |-> "start"]
    /\ static_maps = [n \in FileNames |-> NoContent]
    /\ rendering = [r \in MapRequests |-> NoContent]
    /\ responses = [r \in MapRequests |-> [status |-> "none", url |-> NoName, variable |-> ""]]
    /\ IdleExcept("artifact")

\* test.py 1226-1272 called from app.py 136-139: the map is drawn for the
\* rendered variable and saved under output_path; a failed load returns False
\* and the handler answers 500
RenderMap(r) ==
    /\ apc[r] = "start"
    /\ map_requests[r].kind = "map"
    /\ \E loaded \in BOOLEAN :
         IF loaded
         THEN LET content == [variable |-> RenderedVariable(map_requests[r].variable, available),
                              level    |-> MapLevel(map_requests[r])]
              IN  /\ static_maps' = [static_maps EXCEPT ![MapName(map_requests[r])] = content]
                  /\ rendering' = [rendering EXCEPT ![r] = content]
                  /\ apc' = [apc EXCEPT ![r] = "saved"]
                  /\ UNCHANGED responses
         ELSE /\ responses' = [responses EXCEPT ![r] = Failure("500")]
              /\ apc' = [apc EXCEPT ![r] = "responded"]
              /\ UNCHANGED <<static_maps, rendering>>
    /\ UNCHANGED <<available, map_requests>>
    /\ UNCHANGED notArtifactVars

\* app.py 141-151: the success answer names the file and the variable of the
\* payload
RespondMap(r) ==
    /\ apc[r] = "saved"
    /\ map_requests[r].kind = "map"
    /\ responses' = [responses EXCEPT ![r] =
           [status |-> "success", url |-> MapName(map_requests[r]),
            variable |-> map_requests[r].variable]]
    /\ apc' = [apc EXCEPT ![r] = "responded"]
    /\ UNCHANGED <<available, map_requests, static_maps, rendering>>
    /\ UNCHANGED notArtifactVars

\* app.py 206-270: a variable without a comparable level is answered 400, a
\* failed load 500; else the overlay is drawn and written under png_path,
\* and a failed write leaves the answer without image_url
RenderDiff(r) ==
    /\ apc[r] = "start"
    /\ map_requests[r].kind = "diff"
    /\ IF map_requests[r].variable \notin {available[i] : i \in DOMAIN available}
       THEN /\ responses' = [responses EXCEPT ![r] = Failure("400")]
            /\ apc' = [apc EXCEPT ![r] = "responded"]
            /\ UNCHANGED <<static_maps, rendering>>
       ELSE \E result \in {"written", "write_failed", "load_failed"} :
              LET content == [variable |-> map_requests[r].variable,
                              level    |-> DiffLevel(map_requests[r].variable)]
              IN  IF result = "load_failed"
                  THEN /\ responses' = [responses EXCEPT ![r] = Failure("500")]
                       /\ apc' = [apc EXCEPT ![r] = "responded"]
                       /\ UNCHANGED <<static_maps, rendering>>
                  ELSE /\ rendering' = [rendering EXCEPT ![r] = content]
                       /\ static_maps' = IF result = "written"
                                         THEN [static_maps EXCEPT ![DiffName(map_requests[r])] = content]
                                         ELSE static_maps
                       /\ apc' = [apc EXCEPT ![r] = result]
                       /\ UNCHANGED responses
    /\ UNCHANGED <<available, map_requests>>
    /\ UNCHANGED notArtifactVars

\* app.py 277-282: image_url when the file was written, image_data otherwise
RespondDiff(r) ==
    /\ apc[r] \in {"written", "write_failed"}
    /\ responses' = [responses EXCEPT ![r] =
           [status |-> "success",
            url |-> IF apc[r] = "written" THEN DiffName(map_requests[r]) ELSE NoName,
            variable |-> ""]]
    /\ apc' = [apc EXCEPT ![r] = "responded"]
    /\ UNCHANGED <<available, map_requests, static_maps, rendering>>
    /\ UNCHANGED notArtifactVars

ArtifactNext ==
    \E r \in MapRequests :
        \/ RenderMap(r)
        \/ RespondMap(r)
        \/ RenderDiff(r)
        \/ RespondDiff(r)

SpecArtifacts == ArtifactInit /\ [][ArtifactNext]_vars

\* C25: the file a successful response points to holds what that request
\* rendered, its own variable and level, whatever other requests for the
\* same source, date and hour have run before, after or in between.
C25_ArtifactKeepsOwnContent ==
    \A r \in DOMAIN responses :
        (responses[r].status = "success" /\ responses[r].url # NoName) =>
            static_maps[responses[r].url] = rendering[r]

\* C29: the variable a successful /generate_map response reports is the
\* variable that was loaded and rendered into the map.
C29_ReportedVariableIsRendered ==
    \A r \in DOMAIN responses :
        (map_requests[r].kind = "map" /\ responses[r].status = "success") =>
            responses[r].variable = rendering[r].variable


(***************************************************************************)
(* Level requests: the pressure_level of a payload on its way from the     *)
(* endpoint to the record search of load_single_variable, and the          *)
(* variables that /get_variables_for_pressure_level lists for a level.     *)
(* The index text is the one retrieved for the requested source.           *)
(***************************************************************************)
MaxIndexLines == 3

SPFH == <<"S", "P", "F", "H">>

\* the characters of a key of VARIABLE_INFO
Spelling(c) ==
    CASE c = "GUST"  -> <<"G", "U", "S", "T">>
      [] c = "UGRD"  -> <<"U", "G", "R", "D">>
      [] c = "VGRD"  -> <<"V", "G", "R", "D">>
      [] c = "WIND"  -> <<"W", "I", "N", "D">>
      [] c = "TMP"   -> <<"T", "M", "P">>
      [] c = "DPT"   -> <<"D", "P", "T">>
      [] c = "RH"    -> <<"R", "H">>
      [] c = "PRES"  -> <<"P", "R", "E", "S">>
      [] c = "PRMSL" -> <<"P", "R", "M", "S", "L">>
      [] c = "APCP"  -> <<"A", "P", "C", "P">>
      [] c = "VIS"   -> <<"V", "I", "S">>
      [] c = "TCDC"  -> <<"T", "C", "D", "C">>
      [] c = "HGT"   -> <<"H", "G", "T">>

\* variable in self.config.VARIABLE_INFO
InVariableInfo(variable) == \E c \in DOMAIN VARIABLE_INFO : Spelling(c) = variable

\* source_config.get('has_pressure_levels', False)
HasPressureLevels(source) == source \in {"RTMA-PRES", "3DRTMA"}

\* the level test of load_single_variable for the value the endpoint hands
\* on: None, an int, or a str that was not validated.  For a str
\* `is not None` holds and `== 0` does not, and f"{pressure_level} mb" is
\* the text followed by " mb"
LevelMatchesValue(level_str, value) ==
    IF value.type = "NoneType" THEN LevelMatches(level_str, None)
    ELSE IF value.type = "int" THEN LevelMatches(level_str, Some(value.num))
    ELSE \/ Contains(level_str, value.text \o <<" ", "m", "b">>)
         \/ Contains(level_str, value.text \o <<"m", "b">>)

\* the search loop of load_single_variable: the first record of the
\* variable that passes the level test, or None
SelectValue(records, variable, value) ==
    LET hits == {i \in 1..Len(records) :
                    /\ records[i].variable = variable
                    /\ LevelMatchesValue(records[i].level, value)}
    IN  IF hits = {} THEN None ELSE Some(SetMin(hits))

\* sorted(list(set(record['variable'] for record in inventory))); an
\* exception of get_grib_inventory gives []
get_available_variables(parsed) ==
    IF parsed.ok
    THEN SortedStrings({parsed.inventory[i].variable : i \in 1..Len(parsed.inventory)})
    ELSE <<>>

\* the variables of the index, without those that have no entry in
\* VARIABLE_INFO when the source has pressure levels
get_filtered_variables(parsed, source) ==
    LET all_variables == get_available_variables(parsed)
    IN  IF source \in {"3DRTMA", "RTMA-PRES"}
        THEN SelectSeq(all_variables, InVariableInfo)
        ELSE all_variables

\* the sorted variables of the records that pass the level test and have
\* an entry in VARIABLE_INFO; a source without pressure levels gets the
\* filtered variables, an exception gives []
get_variables_for_pressure_level(parsed, source, level) ==
    IF ~HasPressureLevels(source) THEN get_filtered_variables(parsed, source)
    ELSE IF ~parsed.ok THEN <<>>
    ELSE SortedStrings({parsed.inventory[i].variable :
            i \in {j \in 1..Len(parsed.inventory) :
                     /\ LevelMatches(parsed.inventory[j].level, Some(level))
                     /\ InVariableInfo(parsed.inventory[j].variable)}})

\* the lines a generated index text is made of
IndexLines(k) ==
    { RecordLine(k, TMP, LevelTwoMetre), RecordLine(k, TMP, LevelMb(850)),
      RecordLine(k, HGT, LevelSurface), RecordLine(k, HGT, LevelMbTight(50)),
      RecordLine(k, SPFH, LevelMb(850)) }

RECURSIVE IndexLineSeqs(_, _)
IndexLineSeqs(k, n) ==
    IF n = 0 THEN {<<>>}
    ELSE {<<l>> \o rest : l \in IndexLines(k), rest \in IndexLineSeqs(k + 1, n - 1)}

IndexTexts == {FileText(ls) : ls \in UNION {IndexLineSeqs(1, n) : n \in 1..MaxIndexLines}}

\* the pressure_level values of the generated payloads
PayloadLevels ==
    { LevelNone, LevelStr(<<>>), LevelInt(0), LevelInt(50), LevelInt(850),
      LevelStr(<<"8", "5", "0">>), LevelStr(<<"a", "b", "c">>) }

RequestInit ==
    /\ q_text \in IndexTexts
    /\ q_source \in {"RTMA", "3DRTMA"}
    /\ q_variable \in {TMP, HGT}
    /\ q_level \in PayloadLevels
    /\ q_passed = LevelNone
    /\ q_target = None
    /\ q_listed = <<>>
    /\ qpc = "request"
    /\ IdleExcept("request")

\* generate_map up to the call of the generator: a surface source drops the
\* level, None and '' are handed on as they are, every other value goes
\* through validate_pressure_level, whose ValueError is answered with 400
PassLevel ==
    /\ qpc = "request"
    /\ IF q_source = "RTMA"
       THEN /\ q_passed' = LevelNone
            /\ qpc' = "passed"
       ELSE IF q_level.type # "NoneType" /\ ~(q_level.type = "str" /\ q_level.text = <<>>)
       THEN LET checked == validate_pressure_level(q_level)
            IN  IF checked.outcome = "ValueError"
                THEN /\ qpc' = "rejected"
                     /\ UNCHANGED q_passed
                ELSE /\ q_passed' = LevelInt(checked.value)
                     /\ qpc' = "passed"
       ELSE /\ q_passed' = q_level
            /\ qpc' = "passed"
    /\ UNCHANGED <<q_text, q_source, q_variable, q_level, q_target, q_listed>>
    /\ UNCHANGED notRequestVars

\* create_single_variable_weather_map up to the record search: no variable
\* gives False, a variable that is not available is replaced by the first
\* one, and load_single_variable searches with the level it was handed
SelectPassed ==
    /\ qpc = "passed"
    /\ LET parsed == get_grib_inventory(q_text)
           available_variables == get_filtered_variables(parsed, q_source)
       IN  IF available_variables = <<>>
           THEN /\ qpc' = "failed"
                /\ UNCHANGED q_target
           ELSE /\ q_target' = SelectValue(parsed.inventory,
                                    RenderedVariable(q_variable, available_variables),
                                    q_passed)
                /\ qpc' = "selected"
    /\ UNCHANGED <<q_text, q_source, q_variable, q_level, q_passed, q_listed>>
    /\ UNCHANGED notRequestVars

\* the endpoint /get_variables_for_pressure_level: a missing level and a
\* level int() refuses are answered with 400
ListVariables ==
    /\ qpc = "request"
    /\ IF q_level.type = "NoneType" \/ ~PyIntOf(q_level).ok
       THEN /\ qpc' = "rejected"
            /\ UNCHANGED <<q_passed, q_listed>>
       ELSE /\ q_passed' = LevelInt(PyIntOf(q_level).v)
            /\ q_listed' = get_variables_for_pressure_level(
                               get_grib_inventory(q_text), q_source, PyIntOf(q_level).v)
            /\ qpc' = "listed"
    /\ UNCHANGED <<q_text, q_source, q_variable, q_level, q_target>>
    /\ UNCHANGED notRequestVars

RequestNext ==
    \/ PassLevel
    \/ SelectPassed
    \/ ListVariables

SpecRequest == RequestInit /\ [][RequestNext]_vars

(***************************************************************************)
(* The reconciler on pressure-level index texts whose level descriptors    *)
(* are written in the forms extract_pressure_ints accepts: "850 mb",       *)
(* "850 MB", "850  mb", "500mb" and the bare number "850".                 *)
(***************************************************************************)
MaxFormatLines == 2

LevelUpper(p) == IntToStr(p) \o <<" ", "M", "B">>

LevelWide(p) == IntToStr(p) \o <<" ", " ", "m", "b">>

LevelBare(p) == IntToStr(p)

FormatLines(k) ==
    { RecordLine(k, TMP, LevelMb(850)), RecordLine(k, TMP, LevelUpper(850)),
      RecordLine(k, TMP, LevelWide(850)), RecordLine(k, TMP, LevelBare(850)),
      RecordLine(k, TMP, LevelMbTight(500)) }

RECURSIVE FormatLineSeqs(_, _)
FormatLineSeqs(k, n) ==
    IF n = 0 THEN {<<>>}
    ELSE {<<l>> \o rest : l \in FormatLines(k), rest \in FormatLineSeqs(k + 1, n - 1)}

FormatTexts == {FileText(ls) : ls \in UNION {FormatLineSeqs(1, n) : n \in 1..MaxFormatLines}}

ReconFormatsInit ==
    /\ rtma_text \in RtmaTexts
    /\ three_text \in FormatTexts
    /\ cpc = "rtma_index"
    /\ rtma_map = EmptyMapping
    /\ three_map = EmptyMapping
    /\ retrieved_idx = {}
    /\ comparisons = <<>>
    /\ result_success = "none"
    /\ log_written = FALSE
    /\ IdleExcept("recon")

SpecReconFormats == ReconFormatsInit /\ [][ReconNext]_vars

(***************************************************************************)
(* The two index parsers on one index text: _parse_grib_index of the       *)
(* reconciler and get_grib_inventory of the loader.                        *)
(***************************************************************************)
MaxParseLines == 3

\* "k:offset:d=2025:VAR:level:anl" -- no trailing colon, 6 columns
SixColumnLine(k, var, level) ==
    Join(<<IntToStr(k), IntToStr(ByteOffset(k)), <<"d", "=", "2", "0", "2", "5">>,
           var, level, <<"a", "n", "l">>>>, ":")

ParseLines(k) ==
    { RecordLine(k, TMP, LevelMb(850)), RecordLine(k, HGT, LevelSfc),
      SixColumnLine(k, TMP, LevelTwoMetre), ShortWordLine, BlankLine }

RECURSIVE ParseLineSeqs(_, _)
ParseLineSeqs(k, n) ==
    IF n = 0 THEN {<<>>}
    ELSE {<<l>> \o rest : l \in ParseLines(k), rest \in ParseLineSeqs(k + 1, n - 1)}

ParseTexts == {FileText(ls) : ls \in UNION {ParseLineSeqs(1, n) : n \in 1..MaxParseLines}}

IndexInit ==
    /\ i_text \in ParseTexts
    /\ i_mapping = EmptyMapping
    /\ i_inventory = <<>>
    /\ i_map_outcome = "pending"
    /\ i_inv_outcome = "pending"
    /\ IdleExcept("index")

\* _parse_grib_index(idx_url): every exception, a failed GET included, is
\* logged and answered with the empty mapping
ParseForReconciler ==
    /\ i_map_outcome = "pending"
    /\ \E retrieved \in BOOLEAN :
         IF retrieved
         THEN /\ i_mapping' = ParseGribIndex(i_text)
              /\ i_map_outcome' = "parsed"
         ELSE /\ i_mapping' = EmptyMapping
              /\ i_map_outcome' = "unavailable"
    /\ UNCHANGED <<i_text, i_inventory, i_inv_outcome>>
    /\ UNCHANGED notIndexVars

\* get_grib_inventory(idx_url): a failed GET and an exception of the loop
\* over the lines are logged and raised again
ParseForLoader ==
    /\ i_inv_outcome = "pending"
    /\ \E retrieved \in BOOLEAN :
         LET parsed == get_grib_inventory(i_text)
         IN  IF ~retrieved
             THEN /\ i_inv_outcome' = "RequestException"
                  /\ UNCHANGED i_inventory
             ELSE IF ~parsed.ok
             THEN /\ i_inv_outcome' = "Exception"
                  /\ UNCHANGED i_inventory
             ELSE /\ i_inventory' = parsed.inventory
                  /\ i_inv_outcome' = "parsed"
    /\ UNCHANGED <<i_text, i_mapping, i_map_outcome>>
    /\ UNCHANGED notIndexVars

IndexNext ==
    \/ ParseForReconciler
    \/ ParseForLoader

SpecIndex == IndexInit /\ [][IndexNext]_vars

\* C11: a network failure while retrieving either inventory is not swallowed:
\* compute_comparable_grids returns success=True only when both index
\* resources were retrieved.
C11_FetchFailurePropagates ==
    (cpc = "done" /\ result_success = "True") =>
        retrieved_idx = {"RTMA", "3DRTMA"}

\* the kinds of failed load the caller is to tell apart
FailureKinds == {"not_found", "fetch", "decode", "unsupported_compression"}

\* the exits of load_single_variable a failure of each kind takes
ExitsOf(kind) ==
    IF kind = "not_found" THEN {"not_found"}
    ELSE IF kind = "decode" THEN {"error", "no_data"}
    ELSE {"error"}

\* C12: the result of a failed load tells which kind of failure occurred:
\* it is never a result that a failure of another kind also produces.
C12_FailureKindsDistinct ==
    (pc = "done" /\ failure \in FailureKinds) =>
        \A kind \in FailureKinds \ {failure} :
            \A exit \in ExitsOf(kind) : returned # ReturnOf(exit)

\* distance of a level to its nearest reference target
TargetDistance(x) == SetMin({Abs(x - Targets[j]) : j \in 1..Len(Targets)})

\* C22: with a near-surface hint and at least one pressure level the best
\* match is an available level, and no available level is strictly closer to
\* a reference target of [1000, 925, 850, 700] than it is.
C22_GloballyClosestLevel ==
    \A e \in Entries :
        (HasHint(e) /\ e.three_d_levels # <<>>) =>
            /\ e.best_match_3d_level.some
            /\ e.best_match_3d_level.v \in LevelSet(e)
            /\ \A x \in LevelSet(e) :
                   TargetDistance(e.best_match_3d_level.v) <= TargetDistance(x)

\* C22 witness: a hint and levels [200, 300, 500], none of them a target:
\* 500, at 200 mb from 700, is chosen.
C22_Witness ==
    \E e \in Entries :
        /\ HasHint(e)
        /\ e.three_d_levels = <<200, 300, 500>>
        /\ e.best_match_3d_level = Some(500)

\* the difference grid holds no finite value
NoFiniteDifference == \A c \in Cells(diff) : c.k # "num"

\* C23: when the difference grid has no finite value, so that vabs is 0, the
\* zero-width range is not handed on as the contour levels and the request
\* is not answered with an error.
C23_DegenerateRangeGuarded ==
    (gpc = "responded" /\ NoFiniteDifference) =>
        /\ Increasing(contour_levels)
        /\ diff_response = "success"

\* the records of the index text of the request
RequestInventory == get_grib_inventory(q_text).inventory

\* the level descriptor names the pressure p and nothing else
ExactlyAt(level_str, p) == level_str \in {LevelMb(p), LevelMbTight(p)}

\* C26: for a pressure p > 0 the record that load_single_variable selects and
\* the variables that get_variables_for_pressure_level lists come only from
\* records whose level is exactly p mb; p = 50 never matches '850 mb'.
C26_ExactPressureOnly ==
    /\ (qpc = "selected" /\ q_passed.type = "int" /\ q_passed.num > 0 /\ q_target.some) =>
           ExactlyAt(RequestInventory[q_target.v].level, q_passed.num)
    /\ (qpc = "listed" /\ HasPressureLevels(q_source) /\ q_passed.num > 0) =>
           \A n \in DOMAIN q_listed :
               \E i \in DOMAIN RequestInventory :
                   /\ RequestInventory[i].variable = q_listed[n]
                   /\ ExactlyAt(RequestInventory[i].level, q_passed.num)

\* the variable create_single_variable_weather_map loads for the request
LoadedVariable ==
    RenderedVariable(q_variable, get_filtered_variables(get_grib_inventory(q_text), q_source))

\* C28: a request for a pressure-level source whose pressure_level is the
\* empty string is treated as having no level selector: the loader selects
\* the first record of the variable in file order, as for pressure_level None.
C28_EmptyLevelIsNoSelector ==
    (qpc = "selected" /\ HasPressureLevels(q_source) /\ q_level = LevelStr(<<>>)) =>
        q_target = SelectValue(RequestInventory, LoadedVariable, LevelNone)
\* the record the loader's search finds in the pressure-level index for the
\* best match of a comparison entry
LoaderRecordFor(e) ==
    SelectRecord(get_grib_inventory(three_text).inventory, e.variable,
                 Some(e.best_match_3d_level.v))

\* C27: for every comparison entry with a best match p for variable v, the
\* loader's record search on the same pressure-level index text with (v, p)
\* finds a record, and the level descriptor of that record is one that gave
\* p in the reconciler, whatever the spacing or case it is written with.
C27_BestMatchIsLoadable ==
    \A i \in DOMAIN comparisons :
        LET e == comparisons[i]
        IN  e.best_match_3d_level.some =>
                /\ get_grib_inventory(three_text).ok
                /\ LoaderRecordFor(e).some
                /\ ExtractPressureInt(
                       get_grib_inventory(three_text).inventory[LoaderRecordFor(e).v].level)
                     = e.best_match_3d_level
\* the levels of the loader's records of variable var, in file order
InventoryLevels(var) ==
    LET of_var == SelectSeq(i_inventory, LAMBDA r : r.variable = var)
    IN  [n \in 1..Len(of_var) |-> of_var[n].level]

\* C30: on the same index text the parser of the reconciler and the parser
\* of the loader accept the same lines and give the same (variable, level)
\* pairs in the same order: what the reconciler reports the loader sees.
C30_ParsersAgree ==
    (i_map_outcome = "parsed" /\ i_inv_outcome \in {"parsed", "Exception"}) =>
        /\ i_inv_outcome = "parsed"
        /\ DOMAIN i_mapping = {i_inventory[n].variable : n \in DOMAIN i_inventory}
        /\ \A var \in DOMAIN i_mapping : i_mapping[var] = InventoryLevels(var)
====
